---- MODULE Spec2Model ----
(***************************************************************************)
(* Sheet-backed record store of the Employee Project Manager.              *)
(*                                                                         *)
(* The backing Google Sheet is a sequence of data rows (the rows below the *)
(* header row).  A row is the sequence of its cells as the Sheets API      *)
(* returns it: trailing empty cells are absent, a blank row is << >>, and  *)
(* trailing blank rows are absent.  Cells are strings, except the two      *)
(* hour columns, which are sequences of characters so that parseInt and    *)
(* Number.toString can be computed on them.                                *)
(***************************************************************************)
EXTENDS Integers, Sequences, FiniteSets, TLC

\* ------------------------------------------------------------------ bounds
MaxReqs == 2        \* requests of one behaviour of the store specification
MaxInitRows == 3    \* rows of the sheet before the first request
MaxDay == 3         \* days the clock of one behaviour runs through

\* --------------------------------------------------------- program constants
ReadRows == 999     \* rows covered by the read range A2:Z1000

Undefined == "<undefined>"   \* JavaScript undefined for string-valued fields

Falsy(x) == x = Undefined \/ x = ""

Or(x, d) == IF Falsy(x) THEN d ELSE x

Min(a, b) == IF a < b THEN a ELSE b

\* ------------------------------------------------------------------ numbers
NumUndefined == [kind |-> "undefined", val |-> 0]
NaN == [kind |-> "nan", val |-> 0]
Num(n) == [kind |-> "num", val |-> n]

Digits == <<"0", "1", "2", "3", "4", "5", "6", "7", "8", "9">>

IsDigit(c) == \E d \in 1..10 : Digits[d] = c

DigitVal(c) == (CHOOSE d \in 1..10 : Digits[d] = c) - 1

RECURSIVE SkipSpace(_)
SkipSpace(s) == IF s # << >> /\ s[1] = " " THEN SkipSpace(Tail(s)) ELSE s

RECURSIVE DigitPrefix(_, _, _)
\* <<number of leading digits of s, their decimal value>>
DigitPrefix(s, n, acc) ==
    IF s # << >> /\ IsDigit(s[1])
    THEN DigitPrefix(Tail(s), n + 1, acc * 10 + DigitVal(s[1]))
    ELSE <<n, acc>>

\* parseInt(cell): leading white space, an optional sign, the longest prefix
\* of decimal digits; NaN when there is no digit.
ParseInt(s) ==
    LET t == SkipSpace(s)
        neg == t # << >> /\ t[1] = "-"
        u == IF t # << >> /\ t[1] \in {"+", "-"} THEN Tail(t) ELSE t
        p == DigitPrefix(u, 0, 0)
    IN  IF p[1] = 0 THEN NaN ELSE Num(IF neg THEN 0 - p[2] ELSE p[2])

RECURSIVE NatToString(_)
NatToString(n) ==
    IF n < 10 THEN <<Digits[n + 1]>>
    ELSE NatToString(n \div 10) \o <<Digits[(n % 10) + 1]>>

\* x?.toString() || ""
NumToCell(x) ==
    IF x.kind = "undefined" THEN << >>
    ELSE IF x.kind = "nan" THEN <<"N", "a", "N">>
    ELSE IF x.val < 0 THEN <<"-">> \o NatToString(0 - x.val)
    ELSE NatToString(x.val)

\* --------------------------------------------------------------------- rows
HourCols == {10, 11}

EmptyCell(i) == IF i \in HourCols THEN << >> ELSE ""

\* JavaScript truthiness of row[i-1]
CellTruthy(row, i) == i <= Len(row) /\ row[i] # EmptyCell(i)

\* row[i-1] || d
CellOr(row, i, d) == IF CellTruthy(row, i) THEN row[i] ELSE d

RECURSIVE TrimRow(_)
\* the API returns a row without its trailing empty cells
TrimRow(row) ==
    IF row = << >> THEN << >>
    ELSE IF row[Len(row)] = EmptyCell(Len(row))
         THEN TrimRow(SubSeq(row, 1, Len(row) - 1))
         ELSE row

RECURSIVE TrimSheet(_)
\* the API returns a range without its trailing blank rows
TrimSheet(rows) ==
    IF rows = << >> THEN << >>
    ELSE IF rows[Len(rows)] = << >>
         THEN TrimSheet(SubSeq(rows, 1, Len(rows) - 1))
         ELSE rows

\* sheets.spreadsheets.values.get, range A2:Z1000
ValuesGet(rows) == TrimSheet(SubSeq(rows, 1, Min(Len(rows), ReadRows)))

\* rows.filter(row => row.length > 0 && row[0])
RowFilter(row) == Len(row) > 0 /\ CellTruthy(row, 1)

\* faulty variant: the mapping that replaces an unrecognized status by the
\* default
RowToRecord_KnownStatus(row) ==
    [email |-> CellOr(row, 1, ""),
     name |-> CellOr(row, 2, ""),
     projectTitle |-> CellOr(row, 3, ""),
     projectDescription |-> CellOr(row, 4, ""),
     status |-> IF CellOr(row, 5, "Not Started")
                      \in {"Not Started", "In Progress", "Completed", "On Hold"}
                THEN CellOr(row, 5, "Not Started") ELSE "Not Started",
     deadline |-> CellOr(row, 6, ""),
     lastUpdated |-> CellOr(row, 7, ""),
     priority |-> CellOr(row, 8, "Medium"),
     department |-> CellOr(row, 9, ""),
     estimatedHours |-> IF CellTruthy(row, 10) THEN ParseInt(row[10]) ELSE NumUndefined,
     actualHours |-> IF CellTruthy(row, 11) THEN ParseInt(row[11]) ELSE NumUndefined,
     notes |-> CellOr(row, 12, "")]

\* the .map() of getAllProjects: one row to one ProjectEntry
RowToRecord(row) ==
    [email |-> CellOr(row, 1, ""),
     name |-> CellOr(row, 2, ""),
     projectTitle |-> CellOr(row, 3, ""),
     projectDescription |-> CellOr(row, 4, ""),
     status |-> CellOr(row, 5, "Not Started"),
     deadline |-> CellOr(row, 6, ""),
     lastUpdated |-> CellOr(row, 7, ""),
     priority |-> CellOr(row, 8, "Medium"),
     department |-> CellOr(row, 9, ""),
     estimatedHours |-> IF CellTruthy(row, 10) THEN ParseInt(row[10]) ELSE NumUndefined,
     actualHours |-> IF CellTruthy(row, 11) THEN ParseInt(row[11]) ELSE NumUndefined,
     notes |-> CellOr(row, 12, "")]

RECURSIVE FilterMap(_)
\* rows.filter(...).map(...), computed by halves so that a sheet of a
\* thousand rows needs no deep recursion
FilterMap(rows) ==
    IF rows = << >> THEN << >>
    ELSE IF Len(rows) = 1
         THEN (IF RowFilter(rows[1]) THEN <<RowToRecord(rows[1])>> ELSE << >>)
    ELSE LET half == Len(rows) \div 2
         IN  FilterMap(SubSeq(rows, 1, half)) \o FilterMap(SubSeq(rows, half + 1, Len(rows)))

\* getAllProjects(): the records of the readable rows, or [] when a fetch fails
GetAllProjects(rows, fetchOk) ==
    IF fetchOk THEN FilterMap(ValuesGet(rows)) ELSE << >>

\* faulty variant: findIndex that answers the first position when nothing matches
FindIndex_NeverMissing(projects, email, title) ==
    LET hits == {i \in 1..Len(projects) :
                    projects[i].email = email /\ projects[i].projectTitle = title}
    IN  IF hits = {} THEN 0
        ELSE (CHOOSE i \in hits : \A j \in hits : i <= j) - 1

\* allProjects.findIndex(p => p.email === email && p.projectTitle === title)
\* 0-based, -1 when there is none
FindIndex(projects, email, title) ==
    LET hits == {i \in 1..Len(projects) :
                    projects[i].email = email /\ projects[i].projectTitle = title}
    IN  IF hits = {} THEN -1
        ELSE (CHOOSE i \in hits : \A j \in hits : i <= j) - 1

\* new Date().toISOString().split('T')[0]
DateString(day) == <<"2025-01-01", "2025-01-02", "2025-01-03", "2025-01-04">>[day]

\* faulty variant: rowData that keeps the lastUpdated the caller supplied
RowData_CallerDate(projectData, day) ==
    <<projectData.email,
      Or(projectData.name, ""),
      projectData.projectTitle,
      Or(projectData.projectDescription, ""),
      Or(projectData.status, "Not Started"),
      Or(projectData.deadline, ""),
      Or(projectData.lastUpdated, DateString(day)),
      Or(projectData.priority, "Medium"),
      Or(projectData.department, ""),
      NumToCell(projectData.estimatedHours),
      NumToCell(projectData.actualHours),
      Or(projectData.notes, "")>>

\* rowData of addOrUpdateProject
RowData(projectData, day) ==
    <<projectData.email,
      Or(projectData.name, ""),
      projectData.projectTitle,
      Or(projectData.projectDescription, ""),
      Or(projectData.status, "Not Started"),
      Or(projectData.deadline, ""),
      DateString(day),
      Or(projectData.priority, "Medium"),
      Or(projectData.department, ""),
      NumToCell(projectData.estimatedHours),
      NumToCell(projectData.actualHours),
      Or(projectData.notes, "")>>

\* the row number both write paths address: index + 2
\* (one for the header row, one because rows are 1-indexed)
RowNumber(index) == index + 2

RECURSIVE BlankRows(_)
BlankRows(n) == IF n <= 0 THEN << >> ELSE <<(<< >>)>> \o BlankRows(n - 1)

\* sheets.spreadsheets.values.update, range A{rowNumber}:Z{rowNumber}, RAW
ValuesUpdate(rows, rowNumber, rowData) ==
    LET n == rowNumber - 1
    IN  IF n <= Len(rows)
        THEN TrimSheet([rows EXCEPT ![n] = TrimRow(rowData)])
        ELSE TrimSheet(rows \o BlankRows(n - 1 - Len(rows)) \o <<TrimRow(rowData)>>)

\* sheets.spreadsheets.values.append, range A:Z, INSERT_ROWS: the row lands
\* below the last row that holds data
ValuesAppend(rows, rowData) == TrimSheet(Append(rows, TrimRow(rowData)))

\* batchUpdate deleteDimension ROWS [startIndex, startIndex + 1); grid row 0
\* is the header, so grid row n is data row n
DeleteDimension(rows, startIndex) ==
    IF startIndex >= 1 /\ startIndex <= Len(rows)
    THEN TrimSheet(SubSeq(rows, 1, startIndex - 1)
                   \o SubSeq(rows, startIndex + 1, Len(rows)))
    ELSE rows

\* ------------------------------------------------------------------- inputs
NoSession == [email |-> Undefined, name |-> Undefined, role |-> Undefined]

Session(e, n, role) == [email |-> e, name |-> n, role |-> role]

\* a Partial<ProjectEntry>: absent fields are undefined
PD(e, n, t, st, nt) ==
    [email |-> e, name |-> n, projectTitle |-> t,
     projectDescription |-> Undefined, status |-> st, deadline |-> Undefined,
     lastUpdated |-> Undefined, priority |-> Undefined, department |-> Undefined,
     estimatedHours |-> NumUndefined, actualHours |-> NumUndefined,
     notes |-> nt]

NoData == PD(Undefined, Undefined, Undefined, Undefined, Undefined)

Key(e, t) == [email |-> e, projectTitle |-> t]

Keys == {Key("e1", "t1"), Key("e1", "t2"), Key("e2", "t1")}

\* two sets of value fields that differ in two cells
ValsA == [status |-> "Completed", notes |-> Undefined]

ValsB == [status |-> Undefined, notes |-> "n1"]

UpsertOf(k, v) == PD(k.email, Undefined, k.projectTitle, v.status, v.notes)

\* arguments of the addOrUpdateProject calls of the store specification
UpsertInputs ==
    {UpsertOf(Key("e1", "t1"), ValsA), UpsertOf(Key("e1", "t1"), ValsB),
     UpsertOf(Key("e1", "t2"), ValsA), UpsertOf(Key("e2", "t1"), ValsB)}

\* arguments of the deleteProject calls
DeleteInputs ==
    {PD(k.email, Undefined, k.projectTitle, Undefined, Undefined) : k \in Keys}

\* rows a person typed into the sheet before the first request
InitRow(k) ==
    <<k.email, "n0", k.projectTitle, "", "In Progress", "", "2024-12-31",
      "High", "", <<"8">> >>

NoEmailRow == <<"", "n0", "t1">>

InitRowSet == {<< >>, NoEmailRow} \cup {InitRow(k) : k \in Keys}

KeyOrder(k) == IF k = Key("e1", "t1") THEN 1 ELSE IF k = Key("e1", "t2") THEN 2 ELSE 3

\* the (email, projectTitle) pair a row holds
RowKey(row) == Key(CellOr(row, 1, ""), CellOr(row, 3, ""))

\* the positions of the rows that hold the pair
RowsOf(rows, k) == {i \in 1..Len(rows) : RowFilter(rows[i]) /\ RowKey(rows[i]) = k}

NoDuplicateKeys(rows) ==
    \A i, j \in 1..Len(rows) :
        (i # j /\ RowFilter(rows[i]) /\ RowFilter(rows[j]))
            => RowKey(rows[i]) # RowKey(rows[j])

\* every sheet of at most MaxInitRows rows the API can return
InitSheets ==
    {s \in UNION {[1..n -> InitRowSet] : n \in 0..MaxInitRows} :
        TrimSheet(s) = s /\ NoDuplicateKeys(s)}

\* the sheets of the store specification, as the program alone leaves
\* them: a record in every row, here in one fixed order
StoreSheets ==
    {s \in InitSheets :
        /\ \A i \in 1..Len(s) : RowFilter(s[i])
        /\ \A i, j \in 1..Len(s) :
              (i < j /\ RowFilter(s[i]) /\ RowFilter(s[j]))
                  => KeyOrder(RowKey(s[i])) < KeyOrder(RowKey(s[j]))}

\* no conversion under test
NoCalc ==
    [pc |-> "idle", cells |-> << >>, record |-> NoData, row |-> << >>,
     email |-> << >>, accepted |-> FALSE]

\* -------------------------------------------------------------------- state
VARIABLES
    sheet,       \* the data rows of the backing sheet
    today,       \* the server's current day
    reqs,        \* the requests, one per slot
    lastWriter,  \* slot whose update/append/delete reached the sheet last, 0 if none
    lastDone,    \* slot of the call that returned last, 0 if none
    fetchFailed, \* a fetch of getAllProjects has failed and was swallowed
    env,         \* process.env: HR_EMAILS, CRON_SECRET, the SMTP settings
    token,       \* the JWT of one browser session
    outbox,      \* the messages the SMTP server accepted, in order
    calc         \* a conversion under test: its argument and its results

vars == <<sheet, today, reqs, lastWriter, lastDone, fetchFailed, env, token, outbox, calc>>

Slots == 1..MaxReqs

Idle ==
    [op |-> "idle", pc |-> "idle", session |-> NoSession, data |-> NoData,
     format |-> "", idx |-> -1, result |-> "", status |-> 0, remote |-> FALSE,
     row |-> << >>, readOk |-> TRUE, wrote |-> FALSE, conc |-> {}, follows |-> 0,
     body |-> NoData, mime |-> "", out |-> << >>,
     header |-> Undefined, message |-> Undefined, attach |-> FALSE]

InFlight(q) == reqs[q].pc \notin {"idle", "done"}

\* a caller enters a library function or a route handler in slot r
Begin(r, op, pc, session, data, format) ==
    LET flying == {q \in Slots : InFlight(q)}
    IN  reqs' = [q \in Slots |->
                    IF q = r
                    THEN [Idle EXCEPT !.op = op, !.pc = pc, !.session = session,
                                      !.data = data, !.body = data, !.format = format,
                                      !.conc = flying,
                                      !.follows = IF flying = {} THEN lastDone ELSE 0]
                    ELSE IF q \in flying
                         THEN [reqs[q] EXCEPT !.conc = @ \cup {r}]
                         ELSE reqs[q]]

CanBegin(r) == reqs[r].pc = "idle" /\ \A q \in Slots : q < r => reqs[q].pc # "idle"

\* the status the route's catch block answers when the library call throws;
\* a direct library call has no HTTP status
\* the locals of a call (index, row data) end with the call
Thrown(rq, kind) ==
    [rq EXCEPT !.pc = "done", !.result = kind,
               !.idx = -1, !.row = << >>, !.readOk = TRUE,
               !.status = IF rq.op \in {"upsert", "delete"} THEN 0 ELSE 500]

Returned(rq) ==
    [rq EXCEPT !.pc = "done", !.result = "ok",
               !.idx = -1, !.row = << >>, !.readOk = TRUE,
               !.status = IF rq.op \in {"upsert", "delete"} THEN 0 ELSE 200]

\* ------------------------------------------------------- addOrUpdateProject
\* a caller invokes addOrUpdateProject(projectData)
CallUpsert(r, inputs) ==
    /\ CanBegin(r)
    /\ \E d \in inputs : Begin(r, "upsert", "meta", NoSession, d, "")
    /\ UNCHANGED <<calc, env, token, outbox, sheet, today, lastWriter, lastDone, fetchFailed>>

\* faulty variant: the required-field check without the title
RequiredMissing_EmailOnly(projectData) == Falsy(projectData.email)

\* !projectData.email || !projectData.projectTitle
RequiredMissing(projectData) ==
    Falsy(projectData.email) \/ Falsy(projectData.projectTitle)

\* spreadsheets.get for the sheet name, then the required-field check
UpsertMeta(r) ==
    /\ reqs[r].pc = "meta"
    /\ reqs[r].op \in {"upsert", "add"}
    /\ \E ok \in BOOLEAN :
        LET rq == [reqs[r] EXCEPT !.remote = TRUE]
        IN  IF ~ok
            THEN /\ reqs' = [reqs EXCEPT ![r] = Thrown(rq, "UpstreamFailure")]
                 /\ lastDone' = r
            ELSE IF RequiredMissing(rq.data)
            THEN /\ reqs' = [reqs EXCEPT ![r] = Thrown(rq, "ValidationError")]
                 /\ lastDone' = r
            ELSE /\ reqs' = [reqs EXCEPT ![r] = [rq EXCEPT !.pc = "read"]]
                 /\ lastDone' = lastDone
    /\ UNCHANGED <<calc, env, token, outbox, sheet, today, lastWriter, fetchFailed>>

\* getAllProjects(), findIndex, and rowData with the date of that moment
UpsertRead(r) ==
    /\ reqs[r].pc = "read"
    /\ reqs[r].op \in {"upsert", "add"}
    /\ \E ok \in BOOLEAN :
        LET allProjects == GetAllProjects(sheet, ok)
            existingProjectIndex ==
                FindIndex(allProjects, reqs[r].data.email, reqs[r].data.projectTitle)
        IN
        /\ reqs' = [reqs EXCEPT ![r] = [@ EXCEPT !.pc = "write", !.readOk = ok,
                                                  !.idx = existingProjectIndex,
                                                  !.row = RowData(reqs[r].data, today)]]
        /\ fetchFailed' = (fetchFailed \/ ~ok)
    /\ UNCHANGED <<calc, env, token, outbox, sheet, today, lastWriter, lastDone>>

\* values.update of the matched row, or values.append
UpsertWrite(r) ==
    /\ reqs[r].pc = "write"
    /\ reqs[r].op \in {"upsert", "add"}
    /\ \E ok \in BOOLEAN :
        IF ~ok
        THEN /\ reqs' = [reqs EXCEPT ![r] = Thrown(@, "UpstreamFailure")]
             /\ UNCHANGED <<sheet, lastWriter>>
        ELSE LET rowData == reqs[r].row
             IN  /\ sheet' = IF reqs[r].idx >= 0
                             THEN ValuesUpdate(sheet, RowNumber(reqs[r].idx), rowData)
                             ELSE ValuesAppend(sheet, rowData)
                 /\ reqs' = [reqs EXCEPT ![r] = Returned([@ EXCEPT !.wrote = TRUE])]
                 /\ lastWriter' = r
    /\ lastDone' = r
    /\ UNCHANGED <<calc, env, token, outbox, today, fetchFailed>>

\* ------------------------------------------------------------ deleteProject
\* a caller holding some session invokes deleteProject(userEmail, projectTitle);
\* the function takes no session and no route of the repository wraps it
CallDelete(r, sessions, inputs) ==
    /\ CanBegin(r)
    /\ \E ses \in sessions, d \in inputs : Begin(r, "delete", "meta", ses, d, "")
    /\ UNCHANGED <<calc, env, token, outbox, sheet, today, lastWriter, lastDone, fetchFailed>>

\* spreadsheets.get for the numeric sheet id
DeleteMeta(r) ==
    /\ reqs[r].pc = "meta"
    /\ reqs[r].op = "delete"
    /\ \E ok \in BOOLEAN :
        LET rq == [reqs[r] EXCEPT !.remote = TRUE]
        IN  IF ~ok
            THEN /\ reqs' = [reqs EXCEPT ![r] = Thrown(rq, "UpstreamFailure")]
                 /\ lastDone' = r
            ELSE /\ reqs' = [reqs EXCEPT ![r] = [rq EXCEPT !.pc = "read"]]
                 /\ lastDone' = lastDone
    /\ UNCHANGED <<calc, env, token, outbox, sheet, today, lastWriter, fetchFailed>>

\* getAllProjects(), findIndex, and the "Project not found" throw
DeleteRead(r) ==
    /\ reqs[r].pc = "read"
    /\ reqs[r].op = "delete"
    /\ \E ok \in BOOLEAN :
        LET allProjects == GetAllProjects(sheet, ok)
            projectIndex ==
                FindIndex(allProjects, reqs[r].data.email, reqs[r].data.projectTitle)
            rq == [reqs[r] EXCEPT !.readOk = ok, !.idx = projectIndex]
        IN
        /\ IF projectIndex = -1
            THEN /\ reqs' = [reqs EXCEPT ![r] = Thrown(rq, "NotFound")]
                 /\ lastDone' = r
            ELSE /\ reqs' = [reqs EXCEPT ![r] = [rq EXCEPT !.pc = "write"]]
                 /\ lastDone' = lastDone
        /\ fetchFailed' = (fetchFailed \/ ~ok)
    /\ UNCHANGED <<calc, env, token, outbox, sheet, today, lastWriter>>

\* batchUpdate deleteDimension of row index + 2
DeleteWrite(r) ==
    /\ reqs[r].pc = "write"
    /\ reqs[r].op = "delete"
    /\ \E ok \in BOOLEAN :
        IF ~ok
        THEN /\ reqs' = [reqs EXCEPT ![r] = Thrown(@, "UpstreamFailure")]
             /\ UNCHANGED <<sheet, lastWriter>>
        ELSE /\ sheet' = DeleteDimension(sheet, RowNumber(reqs[r].idx) - 1)
             /\ reqs' = [reqs EXCEPT ![r] = Returned([@ EXCEPT !.wrote = TRUE])]
             /\ lastWriter' = r
    /\ lastDone' = r
    /\ UNCHANGED <<calc, env, token, outbox, today, fetchFailed>>

\* ------------------------------------------------- POST /api/projects/add
Sessions ==
    {NoSession, Session("e1", "n1", "employee"), Session("e1", Undefined, Undefined),
     Session("e2", "n2", "hr")}

Body(e, n, t) == PD(e, n, t, "Completed", "n1")

\* request bodies of POST /api/projects/add, also used as arguments of direct
\* addOrUpdateProject calls
HttpBodies ==
    {Body("e1", "x", "t1"), Body("e2", "x", "t1"), Body(Undefined, Undefined, "t2"),
     Body("", "x", "t1"), Body("e1", "x", ""), Body("e1", "x", " "),
     Body("e1", "x", Undefined),
     [Body("e1", "x", "t1") EXCEPT !.status = "Bogus"],
     [Body("e1", "x", "t1") EXCEPT !.priority = "Urgent"],
     [Body("e1", "x", "t1") EXCEPT !.deadline = "soon"],
     [Body("e1", "x", "t1") EXCEPT !.deadline = "2025-02-01", !.priority = "Low"],
     [Body("e1", "x", "t1") EXCEPT !.estimatedHours = Num(0 - 1)],
     [Body("e1", "x", "t1") EXCEPT !.estimatedHours = NaN],
     [Body("e1", "x", "t1") EXCEPT !.estimatedHours = Num(0), !.actualHours = Num(12)],
     [Body("e1", "x", "t1") EXCEPT !.actualHours = Num(0 - 2)]}

HttpDeleteInputs ==
    DeleteInputs \cup {PD("", Undefined, "t1", Undefined, Undefined),
                       PD("e2", Undefined, "t2", Undefined, Undefined)}

\* String.prototype.trim on the strings of the model, whose only
\* white-space-only string is " "
TrimString(s) == IF s = " " THEN "" ELSE s

\* !projectData.projectTitle?.trim()
TitleMissing(projectData) ==
    projectData.projectTitle = Undefined \/ TrimString(projectData.projectTitle) = ""

ValidStatuses == {"Not Started", "In Progress", "Completed", "On Hold"}

ValidPriorities == {"Low", "Medium", "High"}

\* !isNaN(new Date(s).getTime()) on the deadline strings of the model
ParsesAsDate(s) == s \in {"2024-12-31", "2025-01-01", "2025-01-02", "2025-02-01"}

\* x !== undefined && (isNaN(x) || x < 0)
BadHours(x) == x.kind # "undefined" /\ (x.kind = "nan" \/ x.val < 0)

Reject(status, error, data) == [status |-> status, error |-> error, data |-> data]

\* faulty variant: the security check that overwrites a foreign email instead of
\* refusing it
AddPolicy_ForceOnly(session, body) ==
    IF session.role # "hr"
    THEN Reject(0, "", [body EXCEPT !.email = session.email,
                                    !.name = Or(session.name, "")])
    ELSE Reject(0, "", body)

\* the security check of the route: a role other than hr may not name a
\* foreign email, and gets its own email and name forced into the record
AddPolicy(session, body) ==
    IF session.role # "hr"
    THEN IF ~Falsy(body.email) /\ body.email # session.email
         THEN Reject(403, "AccessDenied", body)
         ELSE Reject(0, "", [body EXCEPT !.email = session.email,
                                         !.name = Or(session.name, "")])
    ELSE Reject(0, "", body)

\* the checks of the POST handler in order; status 0: addOrUpdateProject is called
AddRoute(session, body) ==
    IF Falsy(session.email) THEN Reject(401, "AuthenticationRequired", body)
    ELSE IF TitleMissing(body) THEN Reject(400, "ValidationError", body)
    ELSE LET policy == AddPolicy(session, body)
             d == policy.data
         IN  IF policy.status # 0 THEN policy
             ELSE IF ~Falsy(d.status) /\ d.status \notin ValidStatuses
                  THEN Reject(400, "ValidationError", d)
             ELSE IF ~Falsy(d.priority) /\ d.priority \notin ValidPriorities
                  THEN Reject(400, "ValidationError", d)
             ELSE IF ~Falsy(d.deadline) /\ ~ParsesAsDate(d.deadline)
                  THEN Reject(400, "ValidationError", d)
             ELSE IF BadHours(d.estimatedHours) \/ BadHours(d.actualHours)
                  THEN Reject(400, "ValidationError", d)
             ELSE Reject(0, "", d)

\* a client sends POST /api/projects/add
PostAdd(r, sessions, bodies) ==
    /\ CanBegin(r)
    /\ \E ses \in sessions, b \in bodies : Begin(r, "add", "route", ses, b, "")
    /\ UNCHANGED <<calc, env, token, outbox, sheet, today, lastWriter, lastDone, fetchFailed>>

\* the handler up to the call of addOrUpdateProject
AddHandler(r) ==
    /\ reqs[r].pc = "route"
    /\ reqs[r].op = "add"
    /\ LET o == AddRoute(reqs[r].session, reqs[r].body)
       IN  IF o.status # 0
           THEN /\ reqs' = [reqs EXCEPT ![r] = [@ EXCEPT !.pc = "done", !.data = o.data,
                                                         !.status = o.status,
                                                         !.result = o.error]]
                /\ lastDone' = r
           ELSE /\ reqs' = [reqs EXCEPT ![r] = [@ EXCEPT !.pc = "meta", !.data = o.data]]
                /\ lastDone' = lastDone
    /\ UNCHANGED <<calc, env, token, outbox, sheet, today, lastWriter, fetchFailed>>

\* ---------------------------------------------- GET /api/projects/export
Formats == {Undefined, "", "csv", "excel", "pdf", "CSV", "xml"}

SupportedFormats == {"csv", "excel", "pdf"}

\* String.prototype.toLowerCase on the format strings of the model
ToLowerCase(s) == IF s = "CSV" THEN "csv" ELSE s

\* searchParams.get('format') || 'csv'
FormatParam(f) == Or(f, "csv")

\* number || "" in the export cells: 0 and NaN are falsy
HoursOrEmpty(x) == IF x.kind = "num" /\ x.val # 0 THEN NumToCell(x) ELSE << >>

\* the cells of one record in the CSV and Excel exports
ExportCells(project) ==
    <<Or(project.email, ""), Or(project.name, ""), Or(project.projectTitle, ""),
      Or(project.projectDescription, ""), Or(project.status, ""),
      Or(project.deadline, ""), Or(project.lastUpdated, ""),
      Or(project.priority, ""), Or(project.department, ""),
      HoursOrEmpty(project.estimatedHours), HoursOrEmpty(project.actualHours),
      Or(project.notes, "")>>

\* the lines of one record in the PDF export
PdfBlock(project) ==
    <<project.projectTitle, project.name, project.email, project.status,
      project.priority, project.deadline, Or(project.department, "N/A"),
      project.projectDescription>>

\* exportProjectsAsCSV / AsExcel / AsPDF over the records read
ExportData(format, projects) ==
    [format |-> format,
     records |-> [i \in 1..Len(projects) |->
                    IF format = "pdf" THEN PdfBlock(projects[i])
                    ELSE ExportCells(projects[i])]]

GetExport(r, sessions, formats) ==
    /\ CanBegin(r)
    /\ \E ses \in sessions, f \in formats : Begin(r, "export", "route", ses, NoData, f)
    /\ UNCHANGED <<calc, env, token, outbox, sheet, today, lastWriter, lastDone, fetchFailed>>

\* faulty variant: the handler without its format check
ExportRoute_AnyFormat(session, format) ==
    IF Falsy(session.email) THEN Reject(401, "AuthenticationRequired", NoData)
    ELSE IF session.role # "hr" THEN Reject(403, "AccessDenied", NoData)
    ELSE Reject(0, "", NoData)

\* the session, role and format checks of an export or download handler
ExportRoute(session, format) ==
    IF Falsy(session.email) THEN Reject(401, "AuthenticationRequired", NoData)
    ELSE IF session.role # "hr" THEN Reject(403, "AccessDenied", NoData)
    ELSE IF ToLowerCase(FormatParam(format)) \notin SupportedFormats
         THEN Reject(400, "ValidationError", NoData)
    ELSE Reject(0, "", NoData)

ExportHandler(r) ==
    /\ reqs[r].pc = "route"
    /\ reqs[r].op = "export"
    /\ LET o == ExportRoute(reqs[r].session, reqs[r].format)
       IN  IF o.status # 0
           THEN /\ reqs' = [reqs EXCEPT ![r] = [@ EXCEPT !.pc = "done", !.status = o.status,
                                                         !.result = o.error]]
                /\ lastDone' = r
           ELSE /\ reqs' = [reqs EXCEPT ![r] = [@ EXCEPT !.pc = "read"]]
                /\ lastDone' = lastDone
    /\ UNCHANGED <<calc, env, token, outbox, sheet, today, lastWriter, fetchFailed>>

\* exportProjectsAs...(): getAllProjects() and the rendering
ExportRead(r) ==
    /\ reqs[r].pc = "read"
    /\ reqs[r].op = "export"
    /\ \E ok \in BOOLEAN :
        LET projects == GetAllProjects(sheet, ok)
            data == ExportData(ToLowerCase(FormatParam(reqs[r].format)), projects)
        IN  /\ reqs' = [reqs EXCEPT ![r] =
                           Returned([@ EXCEPT !.remote = TRUE, !.out = <<data>>])]
            /\ fetchFailed' = (fetchFailed \/ ~ok)
    /\ lastDone' = r
    /\ UNCHANGED <<calc, env, token, outbox, sheet, today, lastWriter>>

\* ----------------------------------------------- GET /api/sheets/download
\* DRIVE_EXPORT_MIME_TYPES[format]
DriveMimeType(format) ==
    IF format = "csv" THEN "text/csv"
    ELSE IF format = "excel"
         THEN "application/vnd.openxmlformats-officedocument.spreadsheetml.sheet"
    ELSE IF format = "pdf" THEN "application/pdf"
    ELSE Undefined

FileExtension(format) ==
    IF format = "excel" THEN "xlsx" ELSE IF format = "pdf" THEN "pdf" ELSE "csv"

GetDownload(r, sessions, formats) ==
    /\ CanBegin(r)
    /\ \E ses \in sessions, f \in formats : Begin(r, "download", "route", ses, NoData, f)
    /\ UNCHANGED <<calc, env, token, outbox, sheet, today, lastWriter, lastDone, fetchFailed>>

DownloadHandler(r) ==
    /\ reqs[r].pc = "route"
    /\ reqs[r].op = "download"
    /\ LET o == ExportRoute(reqs[r].session, reqs[r].format)
       IN  IF o.status # 0
           THEN /\ reqs' = [reqs EXCEPT ![r] = [@ EXCEPT !.pc = "done", !.status = o.status,
                                                         !.result = o.error]]
                /\ lastDone' = r
           ELSE /\ reqs' = [reqs EXCEPT ![r] = [@ EXCEPT !.pc = "drive"]]
                /\ lastDone' = lastDone
    /\ UNCHANGED <<calc, env, token, outbox, sheet, today, lastWriter, fetchFailed>>

\* downloadSheetFile(format): drive.files.export with the looked-up MIME type;
\* the Drive API refuses an export without a MIME type
DownloadDrive(r) ==
    /\ reqs[r].pc = "drive"
    /\ reqs[r].op = "download"
    /\ \E ok \in BOOLEAN :
        LET format == FormatParam(reqs[r].format)
            rq == [reqs[r] EXCEPT !.remote = TRUE, !.mime = DriveMimeType(format)]
        IN  IF ok /\ DriveMimeType(format) # Undefined
            THEN reqs' = [reqs EXCEPT ![r] =
                            Returned([rq EXCEPT !.out =
                                <<[format |-> FileExtension(format), records |-> sheet]>>])]
            ELSE reqs' = [reqs EXCEPT ![r] = Thrown(rq, "UpstreamFailure")]
    /\ lastDone' = r
    /\ UNCHANGED <<calc, env, token, outbox, sheet, today, lastWriter, fetchFailed>>

\* ------------------------------------------------------- GET /api/projects
\* faulty variant: getUserProjects without its filter
GetUserProjects_Unfiltered(rows, fetchOk, userEmail) == GetAllProjects(rows, fetchOk)

\* getUserProjects(userEmail): allProjects.filter(p => p.email === userEmail)
GetUserProjects(rows, fetchOk, userEmail) ==
    SelectSeq(GetAllProjects(rows, fetchOk), LAMBDA project : project.email = userEmail)

\* the sessions of the read route: one more whose email differs from a
\* sheet email by letter case only
ProjectsSessions == Sessions \cup {Session("E1", "n1", "employee")}

GetProjects(r, sessions) ==
    /\ CanBegin(r)
    /\ \E ses \in sessions : Begin(r, "projects", "route", ses, NoData, "")
    /\ UNCHANGED <<calc, env, token, outbox, sheet, today, lastWriter, lastDone, fetchFailed>>

\* the session check of the handler
ProjectsHandler(r) ==
    /\ reqs[r].pc = "route"
    /\ reqs[r].op = "projects"
    /\ IF Falsy(reqs[r].session.email)
       THEN /\ reqs' = [reqs EXCEPT ![r] = [@ EXCEPT !.pc = "done", !.status = 401,
                                                     !.result = "AuthenticationRequired"]]
            /\ lastDone' = r
       ELSE /\ reqs' = [reqs EXCEPT ![r] = [@ EXCEPT !.pc = "read"]]
            /\ lastDone' = lastDone
    /\ UNCHANGED <<calc, env, token, outbox, sheet, today, lastWriter, fetchFailed>>

\* the JSON body of the answer
ProjectsResponse(projects, userRole) ==
    [success |-> TRUE, projects |-> projects, userRole |-> userRole,
     totalCount |-> Len(projects)]

\* faulty variant: a failed fetch reaches the handler's catch block
ProjectsRead_Propagates(r) ==
    /\ reqs[r].pc = "read"
    /\ reqs[r].op = "projects"
    /\ \E ok \in BOOLEAN :
        /\ reqs' = [reqs EXCEPT ![r] =
                IF ok
                THEN Returned([@ EXCEPT !.remote = TRUE, !.readOk = ok,
                    !.out = <<ProjectsResponse(GetAllProjects(sheet, ok), @.session.role)>>])
                ELSE [Thrown([@ EXCEPT !.remote = TRUE], "UpstreamFailure")
                        EXCEPT !.readOk = ok]]
        /\ fetchFailed' = (fetchFailed \/ ~ok)
    /\ lastDone' = r
    /\ UNCHANGED <<calc, env, token, outbox, sheet, today, lastWriter>>

\* initializeSheet(), whose failure is logged and dropped, then
\* getAllProjects() for hr and getUserProjects(userEmail) for every other role
ProjectsRead(r) ==
    /\ reqs[r].pc = "read"
    /\ reqs[r].op = "projects"
    /\ \E initOk \in BOOLEAN, ok \in BOOLEAN :
        LET userRole == reqs[r].session.role
            userEmail == reqs[r].session.email
            projects == IF userRole = "hr" THEN GetAllProjects(sheet, ok)
                        ELSE GetUserProjects(sheet, ok, userEmail)
        IN  /\ reqs' = [reqs EXCEPT ![r] =
                    [Returned([@ EXCEPT !.remote = TRUE,
                                        !.out = <<ProjectsResponse(projects, userRole)>>])
                        EXCEPT !.readOk = ok]]
            /\ fetchFailed' = (fetchFailed \/ ~ok)
    /\ lastDone' = r
    /\ UNCHANGED <<calc, env, token, outbox, sheet, today, lastWriter>>

\* -------------------------------------------------------------- process.env
\* a string of the environment is the sequence of its pieces: a piece is a
\* comma, a blank, or a block of other characters such as an address
Str(piece) == <<piece>>

\* a variable of that kind that is not set
NotSet == <<Undefined>>

\* HR_EMAILS, CRON_SECRET and whether SMTP_HOST, SMTP_PORT, SMTP_USER and
\* SMTP_PASS are all set
Env(hrEmails, cronSecret, smtp) ==
    [HR_EMAILS |-> hrEmails, CRON_SECRET |-> cronSecret, SMTP |-> smtp,
     COMPANY_DOMAIN |-> NotSet]

DefaultEnv == Env(Str("e2"), "s1", TRUE)

\* no one has signed in; hrAtSignIn remembers the HR_EMAILS of the sign-in,
\* session is what the session callback produced last
NoToken ==
    [email |-> Undefined, name |-> Undefined, role |-> Undefined, signedIn |-> FALSE,
     hrAtSignIn |-> NotSet, session |-> NoSession]

\* ------------------------------------------------------------------ sign-in
RECURSIVE Split(_)
\* String.prototype.split(","): the pieces between the commas; "" gives [""]
Split(s) ==
    LET commas == {i \in 1..Len(s) : s[i] = ","}
    IN  IF commas = {} THEN <<s>>
        ELSE LET i == CHOOSE c \in commas : \A d \in commas : c <= d
             IN  <<SubSeq(s, 1, i - 1)>> \o Split(SubSeq(s, i + 1, Len(s)))

\* Array.prototype.includes
Includes(list, x) == \E i \in 1..Len(list) : list[i] = x

\* an address, a name or null as a string of the environment's kind
AsStr(x) == IF Falsy(x) THEN << >> ELSE Str(x)

\* process.env.HR_EMAILS?.split(",") || []
HrEmailList(hrEmails) == IF hrEmails = NotSet THEN << >> ELSE Split(hrEmails)

NoUser == [email |-> Undefined, name |-> Undefined]

\* faulty variant: a jwt callback that derives the role on every call
Jwt_RoleEveryCall(tok, user, hrEmails) ==
    LET t == IF user # NoUser
             THEN [tok EXCEPT !.email = user.email, !.name = user.name]
             ELSE tok
    IN  [t EXCEPT !.role = IF Includes(HrEmailList(hrEmails), AsStr(t.email))
                           THEN "hr" ELSE "employee"]

\* the jwt callback: user is present on the initial sign-in only
Jwt(tok, user, hrEmails) ==
    IF user # NoUser
    THEN [tok EXCEPT !.email = user.email, !.name = user.name,
                     !.role = IF Includes(HrEmailList(hrEmails), AsStr(user.email))
                              THEN "hr" ELSE "employee"]
    ELSE tok

\* the session callback: email, name and role are copied from the token
SessionOf(tok) == Session(tok.email, tok.name, tok.role)

Users == {[email |-> e, name |-> n] : e \in {"e1", "e2"}, n \in {"n1", Undefined}}

\* values of HR_EMAILS: unset, "", "e2", "e2, e1", "e1,e2"
HrEmailsValues ==
    {NotSet, << >>, Str("e2"), <<"e2", ",", " ", "e1">>, <<"e1", ",", "e2">>}

\* a Google sign-in that the signIn callback accepted: the first jwt call
SignIn ==
    /\ ~token.signedIn
    /\ \E user \in Users :
         token' = [Jwt(token, user, env.HR_EMAILS)
                     EXCEPT !.signedIn = TRUE, !.hrAtSignIn = env.HR_EMAILS]
    /\ UNCHANGED <<calc, env, outbox, sheet, today, reqs, lastWriter, lastDone, fetchFailed>>

\* a later request of the signed-in browser: the jwt callback without user
JwtCallback ==
    /\ token.signedIn
    /\ token' = Jwt(token, NoUser, env.HR_EMAILS)
    /\ UNCHANGED <<calc, env, outbox, sheet, today, reqs, lastWriter, lastDone, fetchFailed>>

\* a later jwt call followed by the session callback, as getServerSession runs them
SessionCallback ==
    /\ token.signedIn
    /\ LET tok == Jwt(token, NoUser, env.HR_EMAILS)
       IN  token' = [tok EXCEPT !.session = SessionOf(tok)]
    /\ UNCHANGED <<calc, env, outbox, sheet, today, reqs, lastWriter, lastDone, fetchFailed>>

\* the server is started again with another HR_EMAILS; the token lives on
\* in the browser's cookie
Redeploy ==
    /\ \E h \in HrEmailsValues : h # env.HR_EMAILS /\ env' = [env EXCEPT !.HR_EMAILS = h]
    /\ UNCHANGED <<calc, token, outbox, sheet, today, reqs, lastWriter, lastDone, fetchFailed>>

\* ------------------------------------------------------------------- email
RECURSIVE TrimEnd(_)
TrimEnd(s) == IF s # << >> /\ s[Len(s)] = " " THEN TrimEnd(SubSeq(s, 1, Len(s) - 1)) ELSE s

\* String.prototype.trim on a string of the environment's kind
Trim(s) == TrimEnd(SkipSpace(s))

\* hrEmails.map(email => email.trim()).filter(email => email)
CleanHrEmails(hrEmails) ==
    LET list == HrEmailList(hrEmails)
    IN  SelectSeq([i \in 1..Len(list) |-> Trim(list[i])], LAMBDA e : e # << >>)

\* validateEmailConfig().isValid: SMTP_HOST, SMTP_PORT, SMTP_USER, SMTP_PASS
\* and HR_EMAILS are set and not empty
EmailConfigValid(e) == e.SMTP /\ e.HR_EMAILS \notin {NotSet, << >>}

Message(to, subject, attachments) ==
    [to |-> to, subject |-> subject, attachments |-> attachments]

RECURSIVE Delivered(_, _, _, _, _)
\* the messages of the sendMail calls the SMTP server accepted, in list order
Delivered(recipients, accepted, subject, attachments, i) ==
    IF i > Len(recipients) THEN << >>
    ELSE (IF i \in accepted THEN <<Message(recipients[i], subject, attachments)>> ELSE << >>)
         \o Delivered(recipients, accepted, subject, attachments, i + 1)

MailResult(success, remote, messages) ==
    [success |-> success, remote |-> remote, messages |-> messages]

\* faulty variant: the report that counts as sent when one address got it
SendProjectReportToHR_AnySent(e, csvOk, excelOk, accepted) ==
    LET clean == CleanHrEmails(e.HR_EMAILS)
        messages == Delivered(clean, accepted, "report", <<"csv", "xlsx">>, 1)
    IN  IF clean = << >> THEN MailResult(FALSE, FALSE, << >>)
        ELSE IF ~csvOk \/ ~excelOk THEN MailResult(FALSE, TRUE, << >>)
        ELSE IF ~EmailConfigValid(e) THEN MailResult(FALSE, TRUE, << >>)
        ELSE MailResult(Len(messages) > 0, TRUE, messages)

\* sendProjectReportToHR(): the list checks, the two Drive downloads, the
\* transporter, one sendMail per address; it throws unless every step succeeds
SendProjectReportToHR(e, csvOk, excelOk, accepted) ==
    LET clean == CleanHrEmails(e.HR_EMAILS)
        messages == Delivered(clean, accepted, "report", <<"csv", "xlsx">>, 1)
    IN  IF clean = << >> THEN MailResult(FALSE, FALSE, << >>)
        ELSE IF ~csvOk \/ ~excelOk THEN MailResult(FALSE, TRUE, << >>)
        ELSE IF ~EmailConfigValid(e) THEN MailResult(FALSE, TRUE, << >>)
        ELSE MailResult(Len(messages) = Len(clean), TRUE, messages)

\* ------------------------------------------- POST /api/cron/send-reports
\* the Authorization header as a string of the environment's kind
HeaderValues ==
    {NotSet, << >>, <<"Bearer ", "s1">>, <<"Bearer ", "s2">>, <<"bearer ", "s1">>,
     <<"s1">>, <<"Bearer ", "">>, <<"Bearer ", Undefined>>}

CronSecrets == {Undefined, "", "s1"}

\* `Bearer ${cronSecret}`
BearerOf(cronSecret) == <<"Bearer ", cronSecret>>

\* a client sends a request that carries a header or a message
BeginWith(r, op, session, header, message, attach) ==
    LET flying == {q \in Slots : InFlight(q)}
    IN  reqs' = [q \in Slots |->
                    IF q = r
                    THEN [Idle EXCEPT !.op = op, !.pc = "route", !.session = session,
                                      !.header = header, !.message = message,
                                      !.attach = attach, !.conc = flying,
                                      !.follows = IF flying = {} THEN lastDone ELSE 0]
                    ELSE IF q \in flying
                         THEN [reqs[q] EXCEPT !.conc = @ \cup {r}]
                         ELSE reqs[q]]

PostCron(r, sessions, headers) ==
    /\ CanBegin(r)
    /\ \E ses \in sessions, h \in headers :
         BeginWith(r, "cron", ses, h, Undefined, FALSE)
    /\ UNCHANGED <<calc, env, token, outbox, sheet, today, lastWriter, lastDone, fetchFailed>>

\* faulty variant: the secret check that lets a request without header pass
CronRoute_HeaderOptional(cronSecret, authHeader) ==
    IF Falsy(cronSecret) THEN Reject(500, "ConfigurationError", NoData)
    ELSE IF authHeader \notin {NotSet, << >>} /\ authHeader # BearerOf(cronSecret)
         THEN Reject(401, "Unauthorized", NoData)
    ELSE Reject(0, "", NoData)

\* the checks of the handler: the secret is configured, the header matches
CronRoute(cronSecret, authHeader) ==
    IF Falsy(cronSecret) THEN Reject(500, "ConfigurationError", NoData)
    ELSE IF authHeader \in {NotSet, << >>} \/ authHeader # BearerOf(cronSecret)
         THEN Reject(401, "Unauthorized", NoData)
    ELSE Reject(0, "", NoData)

CronHandler(r) ==
    /\ reqs[r].pc = "route"
    /\ reqs[r].op = "cron"
    /\ LET o == CronRoute(env.CRON_SECRET, reqs[r].header)
       IN  IF o.status # 0
           THEN /\ reqs' = [reqs EXCEPT ![r] = [@ EXCEPT !.pc = "done", !.status = o.status,
                                                         !.result = o.error]]
                /\ lastDone' = r
           ELSE /\ reqs' = [reqs EXCEPT ![r] = [@ EXCEPT !.pc = "send"]]
                /\ lastDone' = lastDone
    /\ UNCHANGED <<calc, env, token, outbox, sheet, today, lastWriter, fetchFailed>>

\* sendProjectReportToHR(customMessage) and the answer: 200, or 500 from
\* the catch block
CronSend(r) ==
    /\ reqs[r].pc = "send"
    /\ reqs[r].op = "cron"
    /\ \E csvOk \in BOOLEAN, excelOk \in BOOLEAN,
          accepted \in SUBSET (1..Len(CleanHrEmails(env.HR_EMAILS))) :
         LET res == SendProjectReportToHR(env, csvOk, excelOk, accepted)
             rq == [reqs[r] EXCEPT !.remote = res.remote, !.wrote = res.messages # << >>]
         IN  /\ outbox' = outbox \o res.messages
             /\ reqs' = [reqs EXCEPT ![r] = IF res.success THEN Returned(rq)
                                            ELSE Thrown(rq, "UpstreamFailure")]
    /\ lastDone' = r
    /\ UNCHANGED <<calc, env, token, sheet, today, lastWriter, fetchFailed>>

\* -------------------------------------------- GET /api/cron/send-reports
GetCronHealth(r, sessions) ==
    /\ CanBegin(r)
    /\ \E ses \in sessions : Begin(r, "cronHealth", "route", ses, NoData, "")
    /\ UNCHANGED <<calc, env, token, outbox, sheet, today, lastWriter, lastDone, fetchFailed>>

\* the health check answers every caller with the configuration status
CronHealthHandler(r) ==
    /\ reqs[r].pc = "route"
    /\ reqs[r].op = "cronHealth"
    /\ reqs' = [reqs EXCEPT ![r] =
            Returned([@ EXCEPT !.out =
                <<[status |-> "healthy",
                   cronSecretConfigured |-> ~Falsy(env.CRON_SECRET),
                   hrEmailsConfigured |-> env.HR_EMAILS \notin {NotSet, << >>},
                   hrEmailCount |-> IF env.HR_EMAILS \in {NotSet, << >>} THEN 0
                                    ELSE Len(Split(env.HR_EMAILS))]>>])]
    /\ lastDone' = r
    /\ UNCHANGED <<calc, env, token, outbox, sheet, today, lastWriter, fetchFailed>>

\* ------------------------------------------------------- the hr-only routes
\* the sessions of the hr-only routes: one more whose role differs from hr
\* by letter case only
HrRouteSessions == Sessions \cup {Session("e2", "n2", "HR")}

\* faulty variant: the check that looks at the role only
HrOnly_RoleOnly(session) ==
    IF session.role # "hr" THEN Reject(403, "AccessDenied", NoData)
    ELSE Reject(0, "", NoData)

\* faulty variant: the check that lets every signed-in caller pass
HrOnly_AnyRole(session) ==
    IF Falsy(session.email) THEN Reject(401, "AuthenticationRequired", NoData)
    ELSE Reject(0, "", NoData)

\* the two checks every hr-only handler starts with: !session?.user?.email
\* answers 401, userRole !== "hr" answers 403
HrOnly(session) ==
    IF Falsy(session.email) THEN Reject(401, "AuthenticationRequired", NoData)
    ELSE IF session.role # "hr" THEN Reject(403, "AccessDenied", NoData)
    ELSE Reject(0, "", NoData)

\* the handler of the route up to its first call: an answer, or on to next
HrOnlyHandler(r, op, next) ==
    /\ reqs[r].pc = "route"
    /\ reqs[r].op = op
    /\ LET o == HrOnly(reqs[r].session)
       IN  IF o.status # 0
           THEN /\ reqs' = [reqs EXCEPT ![r] = [@ EXCEPT !.pc = "done", !.status = o.status,
                                                         !.result = o.error]]
                /\ lastDone' = r
           ELSE /\ reqs' = [reqs EXCEPT ![r] = [@ EXCEPT !.pc = next]]
                /\ lastDone' = lastDone
    /\ UNCHANGED <<calc, env, token, outbox, sheet, today, lastWriter, fetchFailed>>

\* --------------------------------------------------- GET /api/projects/stats
\* projects.filter(p => p[field] === value).length
Count(projects, field, value) ==
    Cardinality({i \in 1..Len(projects) : projects[i][field] = value})

\* the day new Date(deadline) falls on, -1 for an Invalid Date
DeadlineDay(deadline) ==
    IF deadline = "2024-12-31" THEN 0
    ELSE IF \E d \in 1..4 : DateString(d) = deadline
         THEN CHOOSE d \in 1..4 : DateString(d) = deadline
    ELSE IF deadline = "2025-02-01" THEN 32
    ELSE -1

\* deadline < today: a date-only deadline is the midnight that starts its
\* day, and today is the moment of the call, which is after that midnight
\* unless the call runs at midnight sharp
Overdue(p, day, midnight) ==
    /\ p.status # "Completed"
    /\ p.deadline # ""
    /\ DeadlineDay(p.deadline) >= 0
    /\ \/ DeadlineDay(p.deadline) < day
       \/ DeadlineDay(p.deadline) = day /\ ~midnight

\* the key of a record in a grouping: project[field] || fallback
GroupKey(p, field, fallback) == IF p[field] = "" THEN fallback ELSE p[field]

\* faulty variant: the grouping that leaves out the records without a value
GroupCount_ValuedOnly(projects, field, fallback) ==
    [k \in {projects[i][field] : i \in 1..Len(projects)} \ {""} |->
        Cardinality({i \in 1..Len(projects) : projects[i][field] = k})]

\* projects.reduce((acc, p) => { acc[key] = (acc[key] || 0) + 1 })
GroupCount(projects, field, fallback) ==
    [k \in {GroupKey(projects[i], field, fallback) : i \in 1..Len(projects)} |->
        Cardinality({i \in 1..Len(projects) :
                        GroupKey(projects[i], field, fallback) = k})]

\* faulty variant: the statistics whose rate is taken over the open projects
GetProjectStats_OpenRate(projects, day, midnight) ==
    LET completed == Count(projects, "status", "Completed")
    IN  [totalProjects |-> Len(projects),
         completedProjects |-> completed,
         inProgressProjects |-> Count(projects, "status", "In Progress"),
         notStartedProjects |-> Count(projects, "status", "Not Started"),
         onHoldProjects |-> Count(projects, "status", "On Hold"),
         overdueProjects |->
             Cardinality({i \in 1..Len(projects) : Overdue(projects[i], day, midnight)}),
         departmentStats |-> GroupCount(projects, "department", "Unassigned"),
         priorityStats |-> GroupCount(projects, "priority", ""),
         completionRate |-> IF Len(projects) > 0
                            THEN [num |-> completed * 100,
                                  den |-> Len(projects) - completed + 1]
                            ELSE [num |-> 0, den |-> 1]]

\* getProjectStats() on the list getAllProjects returned; completionRate is
\* the fraction num / den
GetProjectStats(projects, day, midnight) ==
    LET completed == Count(projects, "status", "Completed")
    IN  [totalProjects |-> Len(projects),
         completedProjects |-> completed,
         inProgressProjects |-> Count(projects, "status", "In Progress"),
         notStartedProjects |-> Count(projects, "status", "Not Started"),
         onHoldProjects |-> Count(projects, "status", "On Hold"),
         overdueProjects |->
             Cardinality({i \in 1..Len(projects) : Overdue(projects[i], day, midnight)}),
         departmentStats |-> GroupCount(projects, "department", "Unassigned"),
         priorityStats |-> GroupCount(projects, "priority", ""),
         completionRate |-> IF Len(projects) > 0
                            THEN [num |-> completed * 100, den |-> Len(projects)]
                            ELSE [num |-> 0, den |-> 1]]

GetStats(r, sessions) ==
    /\ CanBegin(r)
    /\ \E ses \in sessions : Begin(r, "stats", "route", ses, NoData, "")
    /\ UNCHANGED <<calc, env, token, outbox, sheet, today, lastWriter, lastDone, fetchFailed>>

StatsHandler(r) == HrOnlyHandler(r, "stats", "read")

StatsRead(r) ==
    /\ reqs[r].pc = "read"
    /\ reqs[r].op = "stats"
    /\ \E ok \in BOOLEAN, midnight \in BOOLEAN :
        /\ reqs' = [reqs EXCEPT ![r] =
                [Returned([@ EXCEPT !.remote = TRUE,
                                    !.out = <<GetProjectStats(GetAllProjects(sheet, ok),
                                                              today, midnight)>>])
                    EXCEPT !.readOk = ok]]
        /\ fetchFailed' = (fetchFailed \/ ~ok)
    /\ lastDone' = r
    /\ UNCHANGED <<calc, env, token, outbox, sheet, today, lastWriter>>

\* ---------------------------------------------- GET /api/projects/user-sheet
GetUserSheet(r, sessions) ==
    /\ CanBegin(r)
    /\ \E ses \in sessions : Begin(r, "userSheet", "route", ses, NoData, "")
    /\ UNCHANGED <<calc, env, token, outbox, sheet, today, lastWriter, lastDone, fetchFailed>>

\* every signed-in caller gets the links of the shared sheet
UserSheetHandler(r) ==
    /\ reqs[r].pc = "route"
    /\ reqs[r].op = "userSheet"
    /\ reqs' = [reqs EXCEPT ![r] =
            IF Falsy(@.session.email)
            THEN [@ EXCEPT !.pc = "done", !.status = 401, !.result = "AuthenticationRequired"]
            ELSE Returned([@ EXCEPT !.out = <<[userEmail |-> reqs[r].session.email,
                                               sheetId |-> "sheet"]>>])]
    /\ lastDone' = r
    /\ UNCHANGED <<calc, env, token, outbox, sheet, today, lastWriter, fetchFailed>>

\* ------------------------------------------------- POST /api/sheets/download
PostDriveTest(r, sessions) ==
    /\ CanBegin(r)
    /\ \E ses \in sessions : Begin(r, "driveTest", "route", ses, NoData, "")
    /\ UNCHANGED <<calc, env, token, outbox, sheet, today, lastWriter, lastDone, fetchFailed>>

DriveTestHandler(r) == HrOnlyHandler(r, "driveTest", "drive")

\* testDriveConnection() never throws: the answer is 200 with its result
DriveTestRun(r) ==
    /\ reqs[r].pc = "drive"
    /\ reqs[r].op = "driveTest"
    /\ \E ok \in BOOLEAN :
        reqs' = [reqs EXCEPT ![r] =
                    Returned([@ EXCEPT !.remote = TRUE, !.out = <<[success |-> ok]>>])]
    /\ lastDone' = r
    /\ UNCHANGED <<calc, env, token, outbox, sheet, today, lastWriter, fetchFailed>>

\* ------------------------------------------------------ GET /api/sheets/test
GetSheetsTest(r, sessions) ==
    /\ CanBegin(r)
    /\ \E ses \in sessions : Begin(r, "sheetsTest", "route", ses, NoData, "")
    /\ UNCHANGED <<calc, env, token, outbox, sheet, today, lastWriter, lastDone, fetchFailed>>

SheetsTestHandler(r) == HrOnlyHandler(r, "sheetsTest", "test")

\* testConnection() never throws: status 200 or 500 by its success field
SheetsTestRun(r) ==
    /\ reqs[r].pc = "test"
    /\ reqs[r].op = "sheetsTest"
    /\ \E ok \in BOOLEAN :
        LET rq == [reqs[r] EXCEPT !.remote = TRUE, !.out = <<[success |-> ok]>>]
        IN  reqs' = [reqs EXCEPT ![r] =
                        IF ok THEN Returned(rq)
                        ELSE [Returned(rq) EXCEPT !.status = 500,
                                                  !.result = "ConnectionFailed"]]
    /\ lastDone' = r
    /\ UNCHANGED <<calc, env, token, outbox, sheet, today, lastWriter, fetchFailed>>

\* ------------------------------------------------------- GET /api/email/test
\* validateEmailConfiguration(): transporter.verify() is called only on a
\* complete configuration, and a failure becomes success: false
ValidateEmailConfiguration(e, verifyOk) ==
    IF ~EmailConfigValid(e) THEN [success |-> FALSE, remote |-> FALSE]
    ELSE [success |-> verifyOk, remote |-> TRUE]

GetEmailCheck(r, sessions) ==
    /\ CanBegin(r)
    /\ \E ses \in sessions : Begin(r, "emailCheck", "route", ses, NoData, "")
    /\ UNCHANGED <<calc, env, token, outbox, sheet, today, lastWriter, lastDone, fetchFailed>>

EmailCheckHandler(r) == HrOnlyHandler(r, "emailCheck", "validate")

EmailCheckRun(r) ==
    /\ reqs[r].pc = "validate"
    /\ reqs[r].op = "emailCheck"
    /\ \E verifyOk \in BOOLEAN :
        LET v == ValidateEmailConfiguration(env, verifyOk)
        IN  reqs' = [reqs EXCEPT ![r] =
                Returned([@ EXCEPT !.remote = v.remote,
                                   !.out = <<[status |-> IF v.success THEN "ready"
                                                         ELSE "incomplete",
                                              checkedBy |-> reqs[r].session.email]>>])]
    /\ lastDone' = r
    /\ UNCHANGED <<calc, env, token, outbox, sheet, today, lastWriter, fetchFailed>>

\* ------------------------------------------------------ POST /api/email/test
\* the message fields of the request bodies
MessageValues == {Undefined, "", " ", "m1"}

\* sendCustomNotificationToHR(subject, message, includeAttachment)
SendCustomNotificationToHR(e, includeAttachment, excelOk, accepted) ==
    LET clean == CleanHrEmails(e.HR_EMAILS)
        attachments == IF includeAttachment THEN <<"xlsx">> ELSE << >>
        messages == Delivered(clean, accepted, "notification", attachments, 1)
    IN  IF clean = << >> THEN MailResult(FALSE, FALSE, << >>)
        ELSE IF ~EmailConfigValid(e) THEN MailResult(FALSE, FALSE, << >>)
        ELSE IF includeAttachment /\ ~excelOk THEN MailResult(FALSE, TRUE, << >>)
        ELSE MailResult(Len(messages) = Len(clean), TRUE, messages)

PostEmail(r, sessions, messages) ==
    /\ CanBegin(r)
    /\ \E ses \in sessions, m \in messages, a \in BOOLEAN :
         BeginWith(r, "email", ses, Undefined, m, a)
    /\ UNCHANGED <<calc, env, token, outbox, sheet, today, lastWriter, lastDone, fetchFailed>>

\* the two checks, then !message || message.trim() === "" answers 400
EmailHandler(r) ==
    /\ reqs[r].pc = "route"
    /\ reqs[r].op = "email"
    /\ LET o == HrOnly(reqs[r].session)
           blank == Falsy(reqs[r].message) \/ TrimString(reqs[r].message) = ""
       IN  IF o.status # 0 \/ blank
           THEN /\ reqs' = [reqs EXCEPT ![r] =
                        [@ EXCEPT !.pc = "done",
                                  !.status = IF o.status # 0 THEN o.status ELSE 400,
                                  !.result = IF o.status # 0 THEN o.error
                                             ELSE "ValidationError"]]
                /\ lastDone' = r
           ELSE /\ reqs' = [reqs EXCEPT ![r] = [@ EXCEPT !.pc = "validate"]]
                /\ lastDone' = lastDone
    /\ UNCHANGED <<calc, env, token, outbox, sheet, today, lastWriter, fetchFailed>>

\* validateEmailConfiguration() before the send: 500 when it fails
EmailValidate(r) ==
    /\ reqs[r].pc = "validate"
    /\ reqs[r].op = "email"
    /\ \E verifyOk \in BOOLEAN :
        LET v == ValidateEmailConfiguration(env, verifyOk)
            rq == [reqs[r] EXCEPT !.remote = v.remote]
        IN  IF v.success
            THEN /\ reqs' = [reqs EXCEPT ![r] = [rq EXCEPT !.pc = "send"]]
                 /\ lastDone' = lastDone
            ELSE /\ reqs' = [reqs EXCEPT ![r] = Thrown(rq, "ConfigurationError")]
                 /\ lastDone' = r
    /\ UNCHANGED <<calc, env, token, outbox, sheet, today, lastWriter, fetchFailed>>

EmailSend(r) ==
    /\ reqs[r].pc = "send"
    /\ reqs[r].op = "email"
    /\ \E excelOk \in BOOLEAN,
          accepted \in SUBSET (1..Len(CleanHrEmails(env.HR_EMAILS))) :
         LET res == SendCustomNotificationToHR(env, reqs[r].attach, excelOk, accepted)
             rq == [reqs[r] EXCEPT !.remote = @ \/ res.remote,
                                   !.wrote = res.messages # << >>]
         IN  /\ outbox' = outbox \o res.messages
             /\ reqs' = [reqs EXCEPT ![r] = IF res.success THEN Returned(rq)
                                            ELSE Thrown(rq, "UpstreamFailure")]
    /\ lastDone' = r
    /\ UNCHANGED <<calc, env, token, sheet, today, lastWriter, fetchFailed>>

\* the HR_EMAILS values of the mail routes: two more with a blank entry
HttpHrEmails == HrEmailsValues \cup {<<" ">>, <<"e2", ",", " ">>}

HttpEnvs == {Env(h, c, m) : h \in HttpHrEmails, c \in CronSecrets, m \in BOOLEAN}

InitAuth ==
    /\ calc = NoCalc
    /\ sheet = << >>
    /\ today = 1
    /\ reqs = [q \in Slots |-> Idle]
    /\ lastWriter = 0
    /\ lastDone = 0
    /\ fetchFailed = FALSE
    /\ env \in {Env(h, "s1", TRUE) : h \in HrEmailsValues}
    /\ token = NoToken
    /\ outbox = << >>

NextAuth == SignIn \/ JwtCallback \/ SessionCallback \/ Redeploy

SpecAuth == InitAuth /\ [][NextAuth]_vars

\* ------------------------------------------------------ store specification
Init ==
    /\ calc = NoCalc
    /\ sheet \in StoreSheets
    /\ today = 1
    /\ reqs = [q \in Slots |-> Idle]
    /\ lastWriter = 0
    /\ lastDone = 0
    /\ fetchFailed = FALSE
    /\ env = DefaultEnv
    /\ token = NoToken
    /\ outbox = << >>

Next ==
    \E r \in Slots :
        \/ CallUpsert(r, UpsertInputs)
        \/ UpsertMeta(r)
        \/ UpsertRead(r)
        \/ UpsertWrite(r)
        \/ CallDelete(r, {NoSession}, DeleteInputs)
        \/ DeleteMeta(r)
        \/ DeleteRead(r)
        \/ DeleteWrite(r)

Spec == Init /\ [][Next]_vars

\* ------------------------------------------------------ clock specification
\* upserts of one caller that awaits each call, while the days pass
ClockInputs ==
    {[UpsertOf(Key("e1", "t1"), ValsA) EXCEPT !.lastUpdated = d] :
        d \in {Undefined, "2024-12-31", "2099-01-01"}}
    \cup {UpsertOf(Key("e1", "t2"), ValsB)}

ClockSheets == {s \in StoreSheets : Len(s) <= 1}

\* midnight (UTC) passes
Tick ==
    /\ today < MaxDay
    /\ today' = today + 1
    /\ UNCHANGED <<calc, env, token, outbox, sheet, reqs, lastWriter, lastDone, fetchFailed>>

\* the caller invokes addOrUpdateProject after its earlier call has returned
CallUpsertNext(r, inputs) ==
    /\ \A q \in Slots : ~InFlight(q)
    /\ CallUpsert(r, inputs)

InitClock ==
    /\ calc = NoCalc
    /\ sheet \in ClockSheets
    /\ today = 1
    /\ reqs = [q \in Slots |-> Idle]
    /\ lastWriter = 0
    /\ lastDone = 0
    /\ fetchFailed = FALSE
    /\ env = DefaultEnv
    /\ token = NoToken
    /\ outbox = << >>

NextClock ==
    \/ Tick
    \/ \E r \in Slots :
        \/ CallUpsertNext(r, ClockInputs)
        \/ UpsertMeta(r)
        \/ UpsertRead(r)
        \/ UpsertWrite(r)

SpecClock == InitClock /\ [][NextClock]_vars

\* ------------------------------------------------------- HTTP specification
\* one request, of any kind, against any sheet a person may have edited
InitHttp ==
    /\ calc = NoCalc
    /\ \/ sheet \in InitSheets /\ env = DefaultEnv
       \/ sheet = << >> /\ env \in HttpEnvs
    /\ today = 1
    /\ reqs = [q \in Slots |-> Idle]
    /\ lastWriter = 0
    /\ lastDone = 0
    /\ fetchFailed = FALSE
    /\ token = NoToken
    /\ outbox = << >>

NextHttp ==
    \/ CallUpsert(1, HttpBodies)
    \/ CallDelete(1, Sessions, HttpDeleteInputs)
    \/ PostAdd(1, Sessions, HttpBodies)
    \/ GetExport(1, Sessions, Formats)
    \/ GetDownload(1, Sessions, Formats)
    \/ AddHandler(1)
    \/ UpsertMeta(1)
    \/ UpsertRead(1)
    \/ UpsertWrite(1)
    \/ DeleteMeta(1)
    \/ DeleteRead(1)
    \/ DeleteWrite(1)
    \/ ExportHandler(1)
    \/ ExportRead(1)
    \/ DownloadHandler(1)
    \/ DownloadDrive(1)
    \/ GetProjects(1, ProjectsSessions)
    \/ ProjectsHandler(1)
    \/ ProjectsRead(1)
    \/ PostCron(1, Sessions, HeaderValues)
    \/ CronHandler(1)
    \/ CronSend(1)
    \/ GetCronHealth(1, Sessions)
    \/ CronHealthHandler(1)
    \/ GetStats(1, HrRouteSessions)
    \/ StatsHandler(1)
    \/ StatsRead(1)
    \/ GetUserSheet(1, HrRouteSessions)
    \/ UserSheetHandler(1)
    \/ PostDriveTest(1, HrRouteSessions)
    \/ DriveTestHandler(1)
    \/ DriveTestRun(1)
    \/ GetSheetsTest(1, HrRouteSessions)
    \/ SheetsTestHandler(1)
    \/ SheetsTestRun(1)
    \/ GetEmailCheck(1, HrRouteSessions)
    \/ EmailCheckHandler(1)
    \/ EmailCheckRun(1)
    \/ PostEmail(1, HrRouteSessions, MessageValues)
    \/ EmailHandler(1)
    \/ EmailValidate(1)
    \/ EmailSend(1)

SpecHttp == InitHttp /\ [][NextHttp]_vars

\* -------------------------------------------------- claims about the store
KeyOf(projectData) == Key(projectData.email, projectData.projectTitle)

FirstRowOf(rows, k) == CHOOSE i \in RowsOf(rows, k) : \A j \in RowsOf(rows, k) : i <= j

OkUpsert(rq) == rq.op = "upsert" /\ rq.pc = "done" /\ rq.result = "ok"

\* C1: as long as no lookup fetch has failed, the sheet holds at most one row
\* per (email, projectTitle) pair in every state that concurrent upserts and
\* deletes reach from a sheet without duplicate keys.
C1_OneRowPerKey == ~fetchFailed => NoDuplicateKeys(sheet)

\* C2: when an upsert ran alone and returned, and the next call, again alone,
\* was an upsert of the same pair with other field values and has just
\* returned, the sheet holds exactly one row for the pair and the row has the
\* second call's values.
C2_SecondUpsertWins ==
    \A r \in Slots :
        LET rq == reqs[r]
            p == rq.follows
        IN  ( /\ OkUpsert(rq) /\ rq.conc = {} /\ lastDone = r
              /\ \A q \in Slots : q > r => reqs[q].pc = "idle"
              /\ p # 0 )
            => ( ( /\ OkUpsert(reqs[p]) /\ reqs[p].conc = {}
                   /\ KeyOf(reqs[p].data) = KeyOf(rq.data)
                   /\ reqs[p].data # rq.data )
                 => ( /\ Cardinality(RowsOf(sheet, KeyOf(rq.data))) = 1
                      /\ \A i \in RowsOf(sheet, KeyOf(rq.data)) :
                            sheet[i] = TrimRow(RowData(rq.data, today)) ) )

\* C3: after two upserts of the same pair that ran concurrently have both
\* returned, with no failed fetch and no write by any other request, the first
\* row listAll shows for the pair is the row of the request whose write
\* reached the sheet last.
C3_LastWriteWins ==
    \A r1, r2 \in Slots :
        ( /\ r1 < r2 /\ OkUpsert(reqs[r1]) /\ OkUpsert(reqs[r2])
          /\ KeyOf(reqs[r1].data) = KeyOf(reqs[r2].data)
          /\ r2 \in reqs[r1].conc
          /\ ~fetchFailed
          /\ \A q \in Slots \ {r1, r2} : ~reqs[q].wrote )
        => LET k == KeyOf(reqs[r1].data)
           IN  /\ RowsOf(sheet, k) # {}
               /\ sheet[FirstRowOf(sheet, k)] = TrimRow(RowData(reqs[lastWriter].data, today))

NamedKeys(rs) == {KeyOf(rs[q].data) : q \in {q \in Slots : rs[q].op # "idle"}}

HoldsRow(rows, row) == \E i \in 1..Len(rows) : rows[i] = row

\* C5: a row whose pair no request so far names stays in the sheet, with its
\* content, across every step.
C5_OtherKeysUntouched ==
    [][\A k \in Keys :
          (k \notin NamedKeys(reqs') /\ HoldsRow(sheet, InitRow(k)))
              => HoldsRow(sheet', InitRow(k))]_vars

\* ----------------------------------------- claims about a single request
UpsertLands(r) ==
    /\ reqs[r].op \in {"upsert", "add"} /\ reqs[r].pc = "write"
    /\ reqs[r].readOk /\ reqs'[r].wrote

DeleteLands(r) ==
    /\ reqs[r].op = "delete" /\ reqs[r].pc = "write"
    /\ reqs[r].readOk /\ reqs'[r].wrote

RemoveRow(rows, i) == TrimSheet(SubSeq(rows, 1, i - 1) \o SubSeq(rows, i + 1, Len(rows)))

\* C4: an upsert whose lookup succeeded overwrites exactly the first row that
\* holds its pair and changes no other row, or, when no row holds the pair,
\* appends its row below the last row and changes no existing row.
C4_UpsertFrame ==
    [][\A r \in Slots :
          UpsertLands(r) =>
              LET k == KeyOf(reqs[r].data)
                  row == TrimRow(reqs[r].row)
              IN  IF RowsOf(sheet, k) # {}
                  THEN sheet' = [sheet EXCEPT ![FirstRowOf(sheet, k)] = row]
                  ELSE sheet' = Append(sheet, row)]_vars

\* the cells of a row as typed, blank when absent
RawKey(row) ==
    Key(IF Len(row) >= 1 THEN row[1] ELSE "", IF Len(row) >= 3 THEN row[3] ELSE "")

NoRowMatches(rows, k) == \A i \in 1..Len(rows) : RawKey(rows[i]) # k

\* C6: when deleteProject looks up a pair that no row of the sheet holds, the
\* call ends there with "Project not found", has issued no deletion, and the
\* sheet is unchanged.
C6_DeleteNotFound ==
    [][\A r \in Slots :
          ( /\ reqs[r].op = "delete" /\ reqs[r].pc = "read"
            /\ reqs'[r].pc # "read"
            /\ NoRowMatches(sheet, KeyOf(reqs[r].data)) )
          => ( /\ reqs'[r].pc = "done"
               /\ reqs'[r].result = "NotFound"
               /\ ~reqs'[r].wrote
               /\ sheet' = sheet )]_vars

C6_Witness ==
    \E r \in Slots :
        /\ reqs[r].op = "delete" /\ reqs[r].result = "NotFound"
        /\ sheet # << >>
        /\ NoRowMatches(sheet, KeyOf(reqs[r].data))

\* C7: a delete whose lookup succeeded removes exactly the first row that
\* holds its pair; every other row keeps its content and its order.
C7_DeleteFrame ==
    [][\A r \in Slots :
          DeleteLands(r) =>
              LET k == KeyOf(reqs[r].data)
              IN  /\ RowsOf(sheet, k) # {}
                  /\ sheet' = RemoveRow(sheet, FirstRowOf(sheet, k))]_vars

Authenticated(rq) == ~Falsy(rq.session.email)

EmployeeRequest(rq) == Authenticated(rq) /\ rq.session.role # "hr"

ForeignEmail(rq) == ~Falsy(rq.body.email) /\ rq.body.email # rq.session.email

\* C9 as stated: an employee's POST /api/projects/add that names a foreign
\* email is never answered 403; the record goes on with the employee's own
\* email and name.
C9_ForeignEmailReplaced ==
    \A r \in Slots :
        LET rq == reqs[r]
        IN  ( /\ rq.op = "add" /\ rq.pc # "route" /\ EmployeeRequest(rq)
              /\ ~TitleMissing(rq.body) /\ ForeignEmail(rq) )
            => ( /\ rq.status # 403
                 /\ rq.data.email = rq.session.email
                 /\ rq.data.name = Or(rq.session.name, "") )

\* C9 as amended: an employee's POST /api/projects/add with a non-blank title
\* that names a foreign non-empty email is answered 403 AccessDenied without
\* any call to the store; when the email is absent, empty or the employee's
\* own, the record goes on with the employee's email and name.
C9_ForeignEmailDenied ==
    \A r \in Slots :
        LET rq == reqs[r]
        IN  ( /\ rq.op = "add" /\ rq.pc # "route" /\ EmployeeRequest(rq)
              /\ ~TitleMissing(rq.body) )
            => IF ForeignEmail(rq)
               THEN /\ rq.pc = "done" /\ rq.status = 403
                    /\ rq.result = "AccessDenied"
                    /\ rq.data = rq.body
                    /\ ~rq.remote /\ ~rq.wrote
               ELSE /\ rq.status # 403
                    /\ rq.data.email = rq.session.email
                    /\ rq.data.name = Or(rq.session.name, "")

C9_Witness ==
    \E r \in Slots :
        /\ reqs[r].op = "add" /\ EmployeeRequest(reqs[r]) /\ ForeignEmail(reqs[r])
        /\ reqs[r].status = 403

\* C10: with an employee session no delete removes a row, and every export
\* or download request is answered 403 and produces no data.
C10_EmployeeDenied ==
    \A r \in Slots :
        LET rq == reqs[r]
        IN  ( /\ rq.op \in {"delete", "export", "download"}
              /\ EmployeeRequest(rq) )
            => ( /\ ~rq.wrote
                 /\ rq.out = << >>
                 /\ (rq.op # "delete" /\ rq.pc # "route")
                        => (rq.pc = "done" /\ rq.status = 403) )

\* ------------------------------------------------ claims about the routes
\* the rows of the sheet whose email cell is the given email, in sheet order
OwnedRows(rows, e) == SelectSeq(rows, LAMBDA row : RowFilter(row) /\ row[1] = e)

C15_ReadFailsSoftly ==
    [][\A r \in Slots :
          (reqs[r].op = "projects" /\ reqs[r].pc = "read" /\ reqs'[r].pc = "done")
          => /\ reqs'[r].status = 200 /\ reqs'[r].result = "ok"
             /\ reqs'[r].out # << >>
             /\ ~reqs'[r].readOk
                  => /\ reqs'[r].out[1].projects = << >>
                     /\ reqs'[r].out[1].totalCount = 0
                     /\ reqs'[r].out[1].success
             /\ sheet' = sheet]_vars

C15_Witness ==
    \E r \in Slots :
        /\ reqs[r].op = "projects" /\ reqs[r].pc = "done" /\ ~reqs[r].readOk
        /\ reqs[r].status = 200
        /\ \E i \in 1..Len(sheet) : RowFilter(sheet[i])

\* a request of an hr session that carries a format parameter
HrFormatRequest(rq) ==
    /\ rq.op \in {"export", "download"} /\ rq.pc # "route"
    /\ ~Falsy(rq.session.email) /\ rq.session.role = "hr"
    /\ rq.format # Undefined

FormatRejected(rq) ==
    rq.pc = "done" /\ rq.status = 400 /\ rq.result = "ValidationError" /\ ~rq.remote

\* C12 as stated: an hr export or download request whose format parameter is
\* not one of csv, excel, pdf is answered 400 without a Sheets or Drive call.
C12_BadFormatRejected ==
    \A r \in Slots :
        (HrFormatRequest(reqs[r]) /\ reqs[r].format \notin SupportedFormats)
            => FormatRejected(reqs[r])

\* C12 as amended: an hr export or download request whose format parameter
\* is not empty and, in lower case, not one of csv, excel, pdf is answered 400
\* without a Sheets or Drive call.
C12_BadFormatRejectedAnyCase ==
    \A r \in Slots :
        ( /\ HrFormatRequest(reqs[r]) /\ reqs[r].format # ""
          /\ ToLowerCase(reqs[r].format) \notin SupportedFormats )
            => FormatRejected(reqs[r])

C12_Witness ==
    \E r \in Slots :
        /\ HrFormatRequest(reqs[r]) /\ reqs[r].op = "download"
        /\ reqs[r].format = "xml" /\ reqs[r].status = 400

\* C13: a POST /api/projects/add that ends in AuthenticationRequired,
\* AccessDenied or a validation failure is answered with a 4xx status, and no
\* call to the remote spreadsheet was made in that request.
C13_RejectedBeforeRemote ==
    \A r \in Slots :
        LET rq == reqs[r]
        IN  ( /\ rq.op = "add" /\ rq.pc = "done"
              /\ rq.result \in {"AuthenticationRequired", "AccessDenied", "ValidationError"} )
            => (rq.status \in 400..499 /\ ~rq.remote)

\* C14: an upsert or delete whose lookup read failed ends with the upstream
\* error and leaves the sheet as it was; no upsert appends a row for a pair
\* the sheet already holds, and no delete reports "Project not found" for a
\* pair the sheet holds.
C14_UpstreamFailureSurfaced ==
    [][\A r \in Slots :
          LET rq == reqs[r]
              k == KeyOf(rq.data)
              ends == rq.pc \in {"read", "write"} /\ reqs'[r].pc = "done"
          IN  (rq.op \in {"upsert", "add", "delete"} /\ ends)
              => /\ (rq.pc = "write" /\ ~rq.readOk)
                      => (reqs'[r].result = "UpstreamFailure" /\ sheet' = sheet)
                 /\ (rq.pc = "write" /\ rq.idx = -1 /\ reqs'[r].wrote)
                      => RowsOf(sheet, k) = {}
                 /\ reqs'[r].result = "NotFound" => RowsOf(sheet, k) = {}]_vars

\* the place of a lastUpdated cell in the order of the dates
DateOrd(cell) ==
    IF cell = "2024-12-31" THEN 0
    ELSE IF \E d \in 1..4 : DateString(d) = cell
         THEN CHOOSE d \in 1..4 : DateString(d) = cell
    ELSE 99

\* the row an upsert that lands has written
LandedRow(r) ==
    IF reqs[r].idx >= 0 THEN sheet'[RowNumber(reqs[r].idx) - 1] ELSE sheet'[Len(sheet')]

\* C16: the row data of an upsert carries the date of the moment the store
\* builds and issues the write, whatever lastUpdated the caller supplied; the
\* row that lands carries that date; and over the upserts of a caller that
\* awaits each call the lastUpdated stored for a pair never decreases.
C16_LastUpdatedIsNow ==
    [][\A r \in Slots :
          /\ (reqs[r].pc = "read" /\ reqs'[r].pc = "write")
                => reqs'[r].row[7] = DateString(today)
          /\ (reqs[r].op = "upsert" /\ reqs[r].pc = "write" /\ reqs'[r].wrote)
                => /\ LandedRow(r)[7] = reqs[r].row[7]
                   /\ DateOrd(LandedRow(r)[7]) <= today
          /\ \A k \in Keys :
                (RowsOf(sheet, k) # {} /\ RowsOf(sheet', k) # {})
                    => DateOrd(sheet'[FirstRowOf(sheet', k)][7])
                          >= DateOrd(sheet[FirstRowOf(sheet, k)][7])]_vars

C16_Witness ==
    \E r \in Slots :
        /\ reqs[r].op = "upsert" /\ reqs[r].wrote /\ reqs[r].follows # 0
        /\ reqs[r].body.lastUpdated = "2024-12-31"
        /\ today > 1
        /\ RowsOf(sheet, KeyOf(reqs[r].body)) # {}
        /\ sheet[FirstRowOf(sheet, KeyOf(reqs[r].body))][7] = DateString(today)

\* the email is one of the comma-separated entries of the list
ListedIn(hrEmails, email) ==
    /\ hrEmails # NotSet
    /\ \E i \in 1..Len(Split(hrEmails)) : Split(hrEmails)[i] = <<email>>

\* C17: the role of a token is hr exactly when the signed-in email was an
\* entry of HR_EMAILS at sign-in and employee otherwise; no later jwt or
\* session callback changes it, whatever HR_EMAILS has become, and the
\* session carries the role of the token.
C17_RoleFixedAtSignIn ==
    [][/\ token'.signedIn
            => /\ token'.role \in {"hr", "employee"}
               /\ token'.role = "hr" <=> ListedIn(token'.hrAtSignIn, token'.email)
       /\ token.signedIn => token'.role = token.role
       /\ token'.session # NoSession => token'.session.role = token'.role]_vars

C17_Witness ==
    /\ token.signedIn /\ token.role = "employee" /\ token.session.role = "employee"
    /\ ListedIn(env.HR_EMAILS, token.email)
    /\ ~ListedIn(token.hrAtSignIn, token.email)

\* C18: POST /api/cron/send-reports reaches sendProjectReportToHR only when
\* CRON_SECRET is configured and the Authorization header is "Bearer "
\* followed by it; every other request is answered 401, or 500 when the
\* secret is not configured, and sends no email.
C18_CronNeedsSecret ==
    [][\A r \in Slots :
          (reqs[r].op = "cron" /\ reqs[r].pc = "route" /\ reqs'[r].pc # "route")
          => LET secret == env.CRON_SECRET
                 allowed == /\ secret \notin {Undefined, ""}
                            /\ reqs[r].header = <<"Bearer ", secret>>
             IN  IF allowed THEN reqs'[r].pc = "send"
                 ELSE /\ reqs'[r].pc = "done"
                      /\ reqs'[r].status = IF secret \in {Undefined, ""} THEN 500 ELSE 401
                      /\ ~reqs'[r].remote /\ ~reqs'[r].wrote
                      /\ outbox' = outbox]_vars
       /\ [][\A r \in Slots : outbox' # outbox /\ reqs'[r] # reqs[r] /\ reqs[r].op = "cron"
                => reqs[r].pc = "send"]_vars

C18_Witness ==
    \E r \in Slots :
        /\ reqs[r].op = "cron" /\ reqs[r].pc = "done" /\ reqs[r].status = 200
        /\ Len(outbox) = 2 /\ reqs[r].session = NoSession

\* the operations of the HTTP surface
HttpOps ==
    {"projects", "add", "export", "stats", "userSheet", "download", "driveTest",
     "sheetsTest", "emailCheck", "email", "cron", "cronHealth"}

\* a request without a session is answered 401 before anything else happens
Answered401(rq) ==
    /\ rq.pc \in {"route", "done"}
    /\ rq.pc = "done" => rq.status = 401
    /\ rq.out = << >>
    /\ ~rq.remote
    /\ ~rq.wrote

\* C19: every route of the HTTP surface, /api/cron/send-reports included,
\* answers a request that carries no authenticated session with 401, returns
\* no data and performs no side effect.
C19_NoSessionRejected ==
    \A r \in Slots :
        (reqs[r].op \in HttpOps /\ Falsy(reqs[r].session.email))
            => (Answered401(reqs[r]) /\ outbox = << >>)

\* C19 (amended): every route of the HTTP surface other than
\* /api/cron/send-reports answers a request that carries no authenticated
\* session with 401, returns no data and performs no side effect.
C19_NoSessionRejectedExceptCron ==
    \A r \in Slots :
        (reqs[r].op \in HttpOps \ {"cron", "cronHealth"} /\ Falsy(reqs[r].session.email))
            => (Answered401(reqs[r]) /\ outbox = << >>)

C19_Witness ==
    \E r \in Slots :
        /\ reqs[r].op = "email" /\ reqs[r].session = NoSession
        /\ reqs[r].message = "m1" /\ reqs[r].pc = "done" /\ reqs[r].status = 401

\* the operations of the hr-only routes: /api/projects/stats,
\* /api/sheets/download (GET and POST), /api/sheets/test, /api/email/test
\* (GET and POST)
HrOnlyOps == {"stats", "download", "driveTest", "sheetsTest", "emailCheck", "email"}

\* C20: the hr-only routes answer every authenticated session whose role is
\* not exactly hr with 403, and then make no Sheets, Drive or SMTP call and
\* send no email.
C20_HrOnlyRoutes ==
    \A r \in Slots :
        (/\ reqs[r].op \in HrOnlyOps
         /\ ~Falsy(reqs[r].session.email)
         /\ reqs[r].session.role # "hr")
            => /\ reqs[r].pc \in {"route", "done"}
               /\ reqs[r].pc = "done"
                    => (reqs[r].status = 403 /\ reqs[r].result = "AccessDenied")
               /\ reqs[r].out = << >>
               /\ ~reqs[r].remote
               /\ ~reqs[r].wrote
               /\ outbox = << >>

C20_Witness ==
    \E r \in Slots :
        /\ reqs[r].op = "email" /\ reqs[r].session = Session("e2", "n2", "HR")
        /\ reqs[r].message = "m1" /\ reqs[r].attach
        /\ reqs[r].pc = "done" /\ reqs[r].status = 403

\* ------------------------------------------------ rowToRecord, recordToRow
Columns == 12       \* cells of a row the store writes

\* cells of the two hour columns, as a person may type them
HourCells ==
    {<< >>, <<"8">>, <<"0">>, <<"1", "2">>, <<"0", "8">>, <<"8", ".", "5">>,
     <<"8", "h">>, <<" ", "8">>, <<"-", "3">>, <<"a", "b", "c">>, <<" ">>}

FullRow(e, st, pr, h1, h2) ==
    <<e, "n0", "t1", "d1", st, "2025-02-01", "2024-12-31", pr, "dept", h1, h2, "n1">>

\* a row whose text cells are empty where the sheet allows it
SparseRow(e, st, pr, h1, h2) == <<e, "", "", "", st, "", "", pr, "", h1, h2, "">>

\* rows of 0 to 12 cells, as a caller may hand them to the mapping
CellRows ==
    {SubSeq(row, 1, n) :
        n \in 0..Columns,
        row \in {FullRow(e, st, pr, h1, h2) :
                    e \in {"e1", ""}, st \in {"", "In Progress", "Bogus"},
                    pr \in {"", "High", "Urgent"}, h1 \in HourCells, h2 \in HourCells}
               \cup {SparseRow(e, st, pr, h1, << >>) :
                    e \in {"e1", ""}, st \in {"", "Bogus"},
                    pr \in {"", "Urgent"}, h1 \in HourCells}}

\* the .map() callback of getAllProjects applied to the cells
ApplyRowToRecord ==
    /\ calc.pc = "cells"
    /\ calc' = [calc EXCEPT !.pc = "record", !.record = RowToRecord(calc.cells)]
    /\ UNCHANGED <<sheet, today, reqs, lastWriter, lastDone, fetchFailed, env, token, outbox>>

\* the rowData of addOrUpdateProject built from the record
ApplyRowData ==
    /\ calc.pc = "record"
    /\ calc' = [calc EXCEPT !.pc = "row", !.row = RowData(calc.record, today)]
    /\ UNCHANGED <<sheet, today, reqs, lastWriter, lastDone, fetchFailed, env, token, outbox>>

InitRoundTrip ==
    /\ calc \in {[NoCalc EXCEPT !.pc = "cells", !.cells = c] : c \in CellRows}
    /\ sheet = << >>
    /\ today \in 1..MaxDay
    /\ reqs = [q \in Slots |-> Idle]
    /\ lastWriter = 0
    /\ lastDone = 0
    /\ fetchFailed = FALSE
    /\ env = DefaultEnv
    /\ token = NoToken
    /\ outbox = << >>

NextRow == ApplyRowToRecord \/ ApplyRowData

SpecRow == InitRoundTrip /\ [][NextRow]_vars

\* the default a missing cell of column i stands for
CellDefault(i) ==
    IF i = 5 THEN "Not Started" ELSE IF i = 8 THEN "Medium" ELSE EmptyCell(i)

\* C21: for a row of 0 to 12 cells with a non-empty email cell, the row
\* built from the record read from it has 12 cells that equal the input
\* cells (missing cells taken as their defaults) in every position except
\* lastUpdated, which holds the current date; the two hour cells come back
\* unchanged.
C21_RoundTrip ==
    (calc.pc = "row" /\ CellTruthy(calc.cells, 1))
        => /\ Len(calc.row) = Columns
           /\ calc.row[7] = DateString(today)
           /\ \A i \in (1..Columns) \ {7} :
                 calc.row[i] = CellOr(calc.cells, i, CellDefault(i))

\* a string of decimal digits only
AllDigits(cell) == cell # << >> /\ \A i \in 1..Len(cell) : IsDigit(cell[i])

\* C22: a non-empty hour cell that is not numeric is read as undefined, a
\* numeric one as its integer value; the field never holds another
\* non-number marker.
C22_HoursParsed ==
    calc.pc = "record"
        => \A i \in HourCols :
             LET field == IF i = 10 THEN calc.record.estimatedHours
                          ELSE calc.record.actualHours
             IN  CellTruthy(calc.cells, i)
                    => /\ field.kind \in {"num", "undefined"}
                       /\ AllDigits(calc.cells[i])
                            => field = Num(DigitPrefix(calc.cells[i], 0, 0)[2])
                       /\ ParseInt(calc.cells[i]) = NaN => field = NumUndefined

\* the fields of a record, by column
FieldOf(record, i) ==
    <<record.email, record.name, record.projectTitle, record.projectDescription,
      record.status, record.deadline, record.lastUpdated, record.priority,
      record.department, record.estimatedHours, record.actualHours, record.notes>>[i]

\* C23: rowToRecord answers every row of 0 to 12 cells with a record: a
\* missing or empty cell gives the default of its field (empty string, Not
\* Started, Medium, undefined for the hours), and a non-empty status or
\* priority cell is carried through unchanged, recognized or not.
C23_RowToRecordTotal ==
    calc.pc = "record"
        => /\ \A i \in (1..Columns) \ HourCols :
                 FieldOf(calc.record, i) =
                    IF CellTruthy(calc.cells, i) THEN calc.cells[i] ELSE CellDefault(i)
           /\ \A i \in HourCols :
                 /\ ~CellTruthy(calc.cells, i) => FieldOf(calc.record, i) = NumUndefined
                 /\ FieldOf(calc.record, i).kind \in {"num", "nan", "undefined"}

C23_Witness ==
    /\ calc.pc = "record"
    /\ Len(calc.cells) = 5
    /\ calc.cells[1] = ""
    /\ calc.record.status = "Bogus"
    /\ calc.record.priority = "Medium"
    /\ calc.record.estimatedHours = NumUndefined

\* ------------------------------------------------------ statistics runs
MaxStatsRows == 4   \* rows of the sheet the statistics are taken over

StatsTitles == <<"t1", "t2", "t3", "t4", "t5", "t6">>

\* the cells a person may have typed after the title: status, deadline,
\* lastUpdated, priority, department
StatsCells ==
    {<<"d", "Completed", "2025-01-01", "2024-12-31", "High", "d1">>,
     <<"d", "Completed">>,
     <<"d", "In Progress", "2025-01-01", "2024-12-31", "High", "d1">>,
     <<"d", "In Progress", "2025-01-02", "2024-12-31", "", "d2">>,
     << >>,
     <<"d", "On Hold", "2025-02-01">>,
     <<"d", "Bogus", "soon", "", "Urgent">>,
     <<"d", "Not Started", "2024-12-31">>}

\* sheets of up to maxRows records with one title each
StatsSheets(maxRows) ==
    UNION {{[i \in 1..n |-> <<"e1", "n0", StatsTitles[i]>> \o c[i]] :
                c \in [1..n -> StatsCells]} : n \in 0..maxRows}

StatsSessions == {Session("e2", "n2", "hr")}

InitStats ==
    /\ calc = NoCalc
    /\ sheet \in StatsSheets(MaxStatsRows)
    /\ today \in 1..MaxDay
    /\ reqs = [q \in Slots |-> Idle]
    /\ lastWriter = 0
    /\ lastDone = 0
    /\ fetchFailed = FALSE
    /\ env = DefaultEnv
    /\ token = NoToken
    /\ outbox = << >>

NextStats == GetStats(1, StatsSessions) \/ StatsHandler(1) \/ StatsRead(1)

SpecStats == InitStats /\ [][NextStats]_vars

\* a statistics request that has been answered, and the list it was
\* computed from
StatsAnswered(r) == reqs[r].op = "stats" /\ reqs[r].pc = "done" /\ reqs[r].status = 200

StatsList(r) == GetAllProjects(sheet, reqs[r].readOk)

WithStatus(projects, status) == {i \in 1..Len(projects) : projects[i].status = status}

C25_OverdueStrictlyBefore ==
    \A r \in Slots :
        StatsAnswered(r)
            => LET projects == StatsList(r)
               IN  reqs[r].out[1].overdueProjects =
                     Cardinality({i \in 1..Len(projects) :
                                    /\ projects[i].status # "Completed"
                                    /\ DeadlineDay(projects[i].deadline) >= 0
                                    /\ DeadlineDay(projects[i].deadline) < today})

RECURSIVE SumOf(_)
\* the sum of the counts of a grouping
SumOf(f) ==
    IF DOMAIN f = {} THEN 0
    ELSE LET k == CHOOSE k \in DOMAIN f : TRUE
         IN  f[k] + SumOf([j \in DOMAIN f \ {k} |-> f[j]])

FourCounts(stats) ==
    stats.completedProjects + stats.inProgressProjects
        + stats.notStartedProjects + stats.onHoldProjects

MaxBeyond == 2      \* rows a long sheet may hold beyond the read range

\* the i-th row of a long sheet: a record of another owner with its own title
FillerRow(i) == <<"e9", "n0", ToString(i)>>

\* a sheet of n records with the record (e1, t1) in row p
LongSheet(n, p) == [i \in 1..n |-> IF i = p THEN InitRow(Key("e1", "t1")) ELSE FillerRow(i)]

LongSheets ==
    {LongSheet(n, p) :
        n \in (ReadRows - 1)..(ReadRows + MaxBeyond),
        p \in {1, ReadRows - 1, ReadRows, ReadRows + 1, ReadRows + MaxBeyond}}

LongInputs == {UpsertOf(Key("e1", "t1"), ValsA)}

InitLong ==
    /\ calc = NoCalc
    /\ sheet \in LongSheets
    /\ today = 1
    /\ reqs = [q \in Slots |-> Idle]
    /\ lastWriter = 0
    /\ lastDone = 0
    /\ fetchFailed = FALSE
    /\ env = DefaultEnv
    /\ token = NoToken
    /\ outbox = << >>

NextLong ==
    \/ GetProjects(1, StatsSessions)
    \/ ProjectsHandler(1)
    \/ ProjectsRead(1)
    \/ CallUpsert(1, LongInputs)
    \/ UpsertMeta(1)
    \/ UpsertRead(1)
    \/ UpsertWrite(1)
    \/ CallDelete(1, {NoSession}, LongInputs)
    \/ DeleteMeta(1)
    \/ DeleteRead(1)
    \/ DeleteWrite(1)

SpecLong == InitLong /\ [][NextLong]_vars

\* C26: listAll() returns one record for every row whose email cell is not
\* empty, in row order, however many rows the sheet holds; so upsert and
\* deleteByKey find an existing key at any row position.
C26_EveryRowListed ==
    \A r \in Slots :
        LET k == Key(reqs[r].data.email, reqs[r].data.projectTitle)
        IN  /\ (reqs[r].op = "projects" /\ reqs[r].pc = "done" /\ reqs[r].readOk)
                    => reqs[r].out[1].projects = FilterMap(sheet)
            /\ (reqs[r].op = "upsert" /\ reqs[r].pc = "write" /\ reqs[r].readOk
                    /\ RowsOf(sheet, k) # {})
                    => reqs[r].idx >= 0
            /\ (reqs[r].op = "delete" /\ reqs[r].result = "NotFound" /\ ~fetchFailed)
                    => RowsOf(sheet, k) = {}

\* ------------------------------------------------------ the signIn callback
\* String.prototype.endsWith
EndsWith(s, suffix) ==
    Len(suffix) <= Len(s) /\ SubSeq(s, Len(s) - Len(suffix) + 1, Len(s)) = suffix

\* process.env.COMPANY_DOMAIN?.split(",").map(d => d.trim()) || ["@hines.com"]
AllowedDomains(companyDomain) ==
    IF companyDomain = NotSet THEN << <<"@", "hines.com">> >>
    ELSE LET list == Split(companyDomain)
         IN  [i \in 1..Len(list) |-> Trim(list[i])]

\* the signIn callback for the google provider:
\* allowedDomains.some(domain => email.endsWith(domain))
SignInCallback(email, companyDomain) ==
    \E i \in 1..Len(AllowedDomains(companyDomain)) :
        EndsWith(email, AllowedDomains(companyDomain)[i])

\* user.email || "" of the Google accounts that try to sign in
SignInEmails ==
    {<< >>, <<"u1", "@", "hines.com">>, <<"u2", "@", "evil.com">>,
     <<"u3", "@", "x.com">>, <<"u4", "@", "not", "hines.com">>,
     <<"U5", "@", "HINES.COM">>, <<"u6", "@", "hines.com", ".", "evil.com">>}

CompanyDomainValues ==
    {NotSet, << >>, <<"@", "hines.com">>, <<"hines.com">>,
     <<"@", "hines.com", ",", "@", "x.com">>,
     <<"@", "hines.com", ",", " ", "@", "x.com", " ">>,
     <<"@", "hines.com", ",">>, <<",", "@", "x.com">>,
     <<"@", "hines.com", ",", " ", ",", "@", "x.com">>,
     <<" ">>, <<"@", "x.com">>, <<"@", "HINES.COM">>}

\* a Google account arrives at the callback
AttemptSignIn ==
    /\ calc.pc = "idle"
    /\ \E email \in SignInEmails : calc' = [calc EXCEPT !.pc = "signin", !.email = email]
    /\ UNCHANGED <<sheet, today, reqs, lastWriter, lastDone, fetchFailed, env, token, outbox>>

DecideSignIn ==
    /\ calc.pc = "signin"
    /\ calc' = [calc EXCEPT !.pc = "decided",
                            !.accepted = SignInCallback(calc.email, env.COMPANY_DOMAIN)]
    /\ UNCHANGED <<sheet, today, reqs, lastWriter, lastDone, fetchFailed, env, token, outbox>>

InitSignIn ==
    /\ calc = NoCalc
    /\ sheet = << >>
    /\ today = 1
    /\ reqs = [q \in Slots |-> Idle]
    /\ lastWriter = 0
    /\ lastDone = 0
    /\ fetchFailed = FALSE
    /\ env \in {[DefaultEnv EXCEPT !.COMPANY_DOMAIN = d] : d \in CompanyDomainValues}
    /\ token = NoToken
    /\ outbox = << >>

NextSignIn == AttemptSignIn \/ DecideSignIn

SpecSignIn == InitSignIn /\ [][NextSignIn]_vars

\* the configured company domains: the non-empty trimmed entries of the
\* list, "@hines.com" when the list is not configured
CompanyDomains(companyDomain) ==
    {AllowedDomains(companyDomain)[i] : i \in 1..Len(AllowedDomains(companyDomain))}
        \ {<< >>}

\* C27: a Google sign-in is accepted exactly when the email ends with at
\* least one entry of the allowed-domain list (entries trimmed, "@hines.com"
\* when the list is not configured); an email that matches no configured
\* company domain is refused, also when the list has empty entries.
C27_DomainRestricted ==
    calc.pc = "decided"
        => (calc.accepted
              <=> \E d \in CompanyDomains(env.COMPANY_DOMAIN) : EndsWith(calc.email, d))

\* the messages a step has added to the outbox
NewMail == SubSeq(outbox', Len(outbox) + 1, Len(outbox'))

\* C28: sendProjectReportToHR sends one message with the CSV and the Excel
\* attachment to every non-blank, trimmed address of the HR list and succeeds
\* only if every one of these sends succeeded; with no non-blank address it
\* fails and sends nothing, and one failed send fails the call.
C28_ReportToEveryAddress ==
    [][\A r \in Slots :
          (reqs[r].op = "cron" /\ reqs[r].pc = "send" /\ reqs'[r].pc = "done")
          => LET clean == CleanHrEmails(env.HR_EMAILS)
                 all == [i \in 1..Len(clean) |-> Message(clean[i], "report", <<"csv", "xlsx">>)]
             IN  /\ reqs'[r].status \in {200, 500}
                 /\ reqs'[r].status = 200 => (NewMail = all /\ clean # << >>)
                 /\ \A i \in 1..Len(NewMail) : Includes(all, NewMail[i])
                 /\ Len(NewMail) <= Len(all)
                 /\ Len(NewMail) < Len(all) => reqs'[r].status = 500
                 /\ clean = << >> => (reqs'[r].status = 500 /\ NewMail = << >>)
                 /\ \A i \in 1..Len(clean) :
                       clean[i] # << >> /\ clean[i][1] # " " /\ clean[i][Len(clean[i])] # " "]_vars

C28_Witness ==
    \E r \in Slots :
        /\ reqs[r].op = "cron" /\ reqs[r].pc = "done" /\ reqs[r].status = 500
        /\ env.HR_EMAILS = <<"e2", ",", " ", "e1">>
        /\ outbox = <<Message(<<"e1">>, "report", <<"csv", "xlsx">>)>>

\* C30: on GET /api/sheets/download every format that passes the format
\* validation has a Drive export MIME type, a content type and a file
\* extension, so the Drive export is never requested with an undefined MIME
\* type.
C30_ValidatedFormatHasMime ==
    \A r \in Slots :
        (reqs[r].op = "download" /\ reqs[r].remote) => reqs[r].mime # Undefined

====
